---- MODULE Spec2Model ----
(***************************************************************************)
(* A model of the slate HTTP server core: the route table and its path     *)
(* matcher (router/index.ts), the middleware chain (middleware/index.ts),  *)
(* and the server lifecycle with its graceful shutdown (server/index.ts).  *)
(*                                                                         *)
(* Strings of the program (route paths, request paths, regular-expression  *)
(* sources) are sequences of one-character strings, so that the code's     *)
(* character scans can be followed step by step.                           *)
(***************************************************************************)
EXTENDS Integers, Sequences, FiniteSets, TLC

\* ------------------------------------------------------------------------
\* Generic helpers
\* ------------------------------------------------------------------------

\* a \o over a sequence of sequences (Array.prototype.flat)
RECURSIVE Flatten(_)
Flatten(ss) ==
  IF ss = <<>> THEN <<>> ELSE Head(ss) \o Flatten(Tail(ss))

\* the elements of a sequence
Range(s) == { s[i] : i \in 1..Len(s) }

\* the first index of s holding x, or 0
IndexOf(s, x) ==
  IF \E i \in 1..Len(s) : s[i] = x
  THEN CHOOSE i \in 1..Len(s) : s[i] = x /\ \A j \in 1..(i-1) : s[j] # x
  ELSE 0

\* s without its elements equal to x
RECURSIVE Without(_, _)
Without(s, x) ==
  IF s = <<>> THEN <<>>
  ELSE IF Head(s) = x THEN Without(Tail(s), x)
       ELSE <<Head(s)>> \o Without(Tail(s), x)

\* ------------------------------------------------------------------------
\* Regular expressions, as far as compileRouteRegex can produce them:
\* alternation, concatenation, the quantifiers * + ?, literals, escaped
\* literals, the dot, bracket classes, anchors and (named) groups.
\* ------------------------------------------------------------------------

\* the letter a character is compared as under the 'i' flag
Fold(c) ==
  CASE c = "A" -> "a"
    [] c = "B" -> "b"
    [] c = "C" -> "c"
    [] c = "X" -> "x"
    [] OTHER -> c

NoParse == [ok |-> FALSE, val |-> <<>>, pos |-> 0]

\* the characters of a bracket class, up to its closing bracket
RECURSIVE ParseClass(_, _, _)
ParseClass(p, i, acc) ==
  IF i > Len(p) THEN NoParse
  ELSE IF p[i] = "]" THEN [ok |-> TRUE, val |-> acc, pos |-> i + 1]
  ELSE ParseClass(p, i + 1, acc \cup {p[i]})

\* the characters a group name may be made of
IdentChars ==
  {"a", "b", "c", "x", "i", "d", "p", "t", "h", "e", "m", "n", "A", "B", "C", "X", "_"}

\* the name of a named group, up to its closing '>'
RECURSIVE ParseName(_, _, _)
ParseName(p, i, acc) ==
  IF i > Len(p) THEN NoParse
  ELSE IF p[i] = ">" THEN [ok |-> acc # <<>>, val |-> acc, pos |-> i + 1]
  ELSE IF p[i] \notin IdentChars THEN NoParse
  ELSE ParseName(p, i + 1, Append(acc, p[i]))

Atom(k, c, set, neg, name, alts) ==
  [k |-> k, c |-> c, set |-> set, neg |-> neg, name |-> name, alts |-> alts]

RECURSIVE ParseAlts(_, _)
RECURSIVE ParseSeq(_, _)
RECURSIVE ParseAtom(_, _)

Parsed(val, pos) == [ok |-> TRUE, val |-> val, pos |-> pos]

\* a bracket class, its characters parsed as cl
ClassAtom(cl, neg) ==
  IF ~cl.ok THEN NoParse
  ELSE Parsed(Atom("cls", "", cl.val, neg, <<>>, <<>>), cl.pos)

\* a group, its body parsed as body: the closing parenthesis
GroupClose(p, name, body) ==
  IF ~body.ok \/ body.pos > Len(p) \/ p[body.pos] # ")" THEN NoParse
  ELSE Parsed(Atom("grp", "", {}, FALSE, name, body.val), body.pos + 1)

\* a group, its name (if any) parsed as nm: the body
GroupAtom(p, nm) ==
  IF ~nm.ok THEN NoParse ELSE GroupClose(p, nm.val, ParseAlts(p, nm.pos))

\* one atom of the expression starting at p[i]
ParseAtom(p, i) ==
  LET c == p[i] IN
  CASE c = "\\" ->
         IF i + 1 > Len(p) THEN NoParse
         ELSE Parsed(Atom("chr", p[i+1], {}, FALSE, <<>>, <<>>), i + 2)
    [] c = "." -> Parsed(Atom("any", "", {}, FALSE, <<>>, <<>>), i + 1)
    [] c = "^" -> Parsed(Atom("bol", "", {}, FALSE, <<>>, <<>>), i + 1)
    [] c = "$" -> Parsed(Atom("eol", "", {}, FALSE, <<>>, <<>>), i + 1)
    [] c = "[" ->
         LET neg == i + 1 <= Len(p) /\ p[i+1] = "^" IN
         ClassAtom(ParseClass(p, IF neg THEN i + 2 ELSE i + 1, {}), neg)
    [] c = "(" ->
         LET named == i + 2 <= Len(p) /\ p[i+1] = "?" /\ p[i+2] = "<" IN
         GroupAtom(p, IF named THEN ParseName(p, i + 3, <<>>) ELSE Parsed(<<>>, i + 1))
    [] c \in {"*", "+", "?"} -> NoParse
    [] OTHER -> Parsed(Atom("chr", c, {}, FALSE, <<>>, <<>>), i + 1)

\* the atom with its quantifier q, before the items parsed as rest
SeqCons(atom, q, rest) ==
  IF ~rest.ok \/ (q # "1" /\ atom.k \in {"bol", "eol"}) THEN NoParse
  ELSE Parsed(<<[atom |-> atom, q |-> q]>> \o rest.val, rest.pos)

\* the atom parsed as a: its quantifier, and the rest of the sequence
SeqAfter(p, a) ==
  IF ~a.ok THEN NoParse
  ELSE LET q == IF a.pos <= Len(p) /\ p[a.pos] \in {"*", "+", "?"} THEN p[a.pos] ELSE "1" IN
       SeqCons(a.val, q, ParseSeq(p, IF q = "1" THEN a.pos ELSE a.pos + 1))

\* a sequence of quantified atoms, up to '|', ')' or the end
ParseSeq(p, i) ==
  IF i > Len(p) \/ p[i] = "|" \/ p[i] = ")"
  THEN Parsed(<<>>, i)
  ELSE SeqAfter(p, ParseAtom(p, i))

\* the alternative first, before the alternatives parsed as rest
AltsCons(first, rest) ==
  IF ~rest.ok THEN NoParse ELSE Parsed(<<first>> \o rest.val, rest.pos)

\* the alternative parsed as s: the alternatives after its '|', if any
AltsAfter(p, s) ==
  IF ~s.ok THEN NoParse
  ELSE IF s.pos <= Len(p) /\ p[s.pos] = "|"
       THEN AltsCons(s.val, ParseAlts(p, s.pos + 1))
       ELSE Parsed(<<s.val>>, s.pos)

\* the alternatives of an expression, up to ')' or the end
ParseAlts(p, i) == AltsAfter(p, ParseSeq(p, i))

\* the names of the groups of an expression, in source order
RECURSIVE GroupNames(_)
GroupNames(alts) ==
  Flatten([a \in 1..Len(alts) |->
    Flatten([j \in 1..Len(alts[a]) |->
      IF alts[a][j].atom.k = "grp"
      THEN (IF alts[a][j].atom.name = <<>> THEN <<>> ELSE <<alts[a][j].atom.name>>)
           \o GroupNames(alts[a][j].atom.alts)
      ELSE <<>>])])

\* the RegExp of a source parsed as r; a duplicate group name is a SyntaxError
RegExpOf(source, ignoreCase, r, names) ==
  IF r.ok /\ r.pos = Len(source) + 1 /\ Len(names) = Cardinality(Range(names))
  THEN [ok |-> TRUE, source |-> source, alts |-> r.val, ignoreCase |-> ignoreCase,
        names |-> names]
  ELSE [ok |-> FALSE, source |-> source, alts |-> <<>>, ignoreCase |-> ignoreCase,
        names |-> <<>>]

\* the source parsed as r, with the names of its groups
WithNames(source, ignoreCase, r) ==
  RegExpOf(source, ignoreCase, r, IF r.ok THEN GroupNames(r.val) ELSE <<>>)

\* new RegExp(source, flags): a SyntaxError is ok = FALSE
NewRegExp(source, ignoreCase) == WithNames(source, ignoreCase, ParseAlts(source, 1))

SameChar(a, b, ic) == IF ic THEN Fold(a) = Fold(b) ELSE a = b

\* A match result is [pos, caps]: the position after the match and the
\* captures made, a sequence of <<name, value>>.  The matchers return the
\* possible results in the backtracking order of the engine.
RECURSIVE MAlts(_, _, _, _, _)
RECURSIVE MSeq(_, _, _, _, _, _)
RECURSIVE MItem(_, _, _, _, _)
RECURSIVE MAtom(_, _, _, _, _)

Result(pos, caps) == [pos |-> pos, caps |-> caps]

\* the results rs of a group's body, with the capture of a named group
Capture(name, s, pos, rs) ==
  IF name = <<>> THEN rs
  ELSE [n \in 1..Len(rs) |->
          Result(rs[n].pos, Append(rs[n].caps, <<name, SubSeq(s, pos, rs[n].pos - 1)>>))]

MAtom(atom, s, pos, caps, ic) ==
  CASE atom.k = "chr" ->
         IF pos <= Len(s) /\ SameChar(s[pos], atom.c, ic)
         THEN <<Result(pos + 1, caps)>> ELSE <<>>
    [] atom.k = "any" ->
         IF pos <= Len(s) THEN <<Result(pos + 1, caps)>> ELSE <<>>
    [] atom.k = "cls" ->
         IF pos <= Len(s)
            /\ ((\E x \in atom.set : SameChar(s[pos], x, ic)) # atom.neg)
         THEN <<Result(pos + 1, caps)>> ELSE <<>>
    [] atom.k = "bol" -> IF pos = 1 THEN <<Result(pos, caps)>> ELSE <<>>
    [] atom.k = "eol" -> IF pos = Len(s) + 1 THEN <<Result(pos, caps)>> ELSE <<>>
    [] atom.k = "grp" -> Capture(atom.name, s, pos, MAlts(atom.alts, s, pos, caps, ic))

\* the atom matched again after each of the results once, as long as it
\* consumes characters
Repeat(atom, s, pos, ic, once) ==
  Flatten([n \in 1..Len(once) |->
    IF once[n].pos > pos
    THEN MItem([atom |-> atom, q |-> "*"], s, once[n].pos, once[n].caps, ic)
    ELSE <<once[n]>>])

\* the results of a quantified atom, greedy; once are the results of one
\* match of the atom
Quantified(item, s, pos, caps, ic, once) ==
  CASE item.q = "1" -> once
    [] item.q = "?" -> once \o <<Result(pos, caps)>>
    [] item.q = "*" -> Repeat(item.atom, s, pos, ic, once) \o <<Result(pos, caps)>>
    [] item.q = "+" -> Repeat(item.atom, s, pos, ic, once)

MItem(item, s, pos, caps, ic) ==
  Quantified(item, s, pos, caps, ic, MAtom(item.atom, s, pos, caps, ic))

\* the items after items[j], matched after each of the results rs
Continue(items, j, s, ic, rs) ==
  Flatten([n \in 1..Len(rs) |-> MSeq(items, j + 1, s, rs[n].pos, rs[n].caps, ic)])

MSeq(items, j, s, pos, caps, ic) ==
  IF j > Len(items) THEN <<Result(pos, caps)>>
  ELSE Continue(items, j, s, ic, MItem(items[j], s, pos, caps, ic))

MAlts(alts, s, pos, caps, ic) ==
  Flatten([a \in 1..Len(alts) |-> MSeq(alts[a], 1, s, pos, caps, ic)])

NoMatch == [matched |-> FALSE, groups |-> <<>>]

RECURSIVE ExecFrom(_, _, _)

\* the results rs of a match attempt at start: the first one, or the next
\* start position
ExecAt(re, s, start, rs) ==
  IF rs # <<>> THEN [matched |-> TRUE, groups |-> rs[1].caps]
  ELSE ExecFrom(re, s, start + 1)

\* regex.exec(s): the first start position with a match, and its captures
ExecFrom(re, s, start) ==
  IF start > Len(s) + 1 THEN NoMatch
  ELSE ExecAt(re, s, start, MAlts(re.alts, s, start, <<>>, re.ignoreCase))

RegExpExec(re, s) == ExecFrom(re, s, 1)

\* ------------------------------------------------------------------------
\* router/index.ts: the path matcher
\* ------------------------------------------------------------------------

\* Catch-all route path pattern
CATCH_ALL_ROUTE_PATH == <<"/", "{", "p", "a", "t", "h", ":", ".", "*", "}">>

\* the characters compileRouteRegex escapes
EscapedChars == {"^", "$", "\\", ".", "*", "+", "?", "(", ")", "[", "]"}

\* the inner loop of compileRouteRegex: the text of a placeholder, scanned
\* from path[i] with balanced braces
RECURSIVE ScanParam(_, _, _, _)
ScanParam(path, i, braceCount, param) ==
  IF i <= Len(path) /\ braceCount > 0
  THEN LET bc == IF path[i] = "{" THEN braceCount + 1
                 ELSE IF path[i] = "}" THEN braceCount - 1
                 ELSE braceCount
       IN ScanParam(path, i + 1, bc, IF bc > 0 THEN Append(param, path[i]) ELSE param)
  ELSE [param |-> param, pos |-> i, braceCount |-> braceCount]

\* the split were the default pattern to be any characters
SplitParam_AnyChars(param) ==
  LET k == IndexOf(param, ":") IN
  IF k # 0 /\ k < Len(param)
  THEN [name |-> SubSeq(param, 1, k - 1), regex |-> SubSeq(param, k + 1, Len(param))]
  ELSE [name |-> param, regex |-> <<".", "*">>]

\* param.split(/:(.+)/): the name, and the pattern after the first ':' that
\* is followed by a character (default: one or more non-slash characters)
SplitParam(param) ==
  LET k == IndexOf(param, ":") IN
  IF k # 0 /\ k < Len(param)
  THEN [name |-> SubSeq(param, 1, k - 1), regex |-> SubSeq(param, k + 1, Len(param))]
  ELSE [name |-> param, regex |-> <<"[", "^", "/", "]", "+">>]

\* the outer loop of compileRouteRegex: the pattern source from path[i] on
RECURSIVE CompilePattern(_, _)
CompilePattern(path, i) ==
  IF i > Len(path) THEN <<>>
  ELSE IF path[i] = "{"
       THEN LET sc == ScanParam(path, i + 1, 1, <<>>)
                sp == SplitParam(sc.param)
            IN <<"(", "?", "<">> \o sp.name \o <<">">> \o sp.regex \o <<")">>
               \o CompilePattern(path, sc.pos)
       ELSE (IF path[i] \in EscapedChars THEN <<"\\", path[i]>> ELSE <<path[i]>>)
            \o CompilePattern(path, i + 1)

\* compileRouteRegex(route)
compileRouteRegex(route) ==
  NewRegExp(<<"^">> \o CompilePattern(route.path, 1) \o <<"$">>, ~route.isCaseSensitive)

\* ------------------------------------------------------------------------
\* router/index.ts: the route table.  The Map is a sequence of entries in
\* insertion order; an entry's methods object is a sequence of
\* [m, route] pairs in key insertion order.
\* ------------------------------------------------------------------------

NoRouter == "none"

\* Map.prototype.get as an index: the position of the entry of a key, or 0
MapIndex(m, key) ==
  IF \E i \in 1..Len(m) : m[i].key = key
  THEN CHOOSE i \in 1..Len(m) : m[i].key = key
  ELSE 0

\* the keys of a route table, in iteration order
MapKeys(m) == [i \in 1..Len(m) |-> m[i].key]

\* Object.keys(methods)
MethodKeys(methods) == [i \in 1..Len(methods) |-> methods[i].m]

\* the assignment were it to keep the route a method is already bound to
SetMethod_KeepsFirst(methods, method, route) ==
  IF \E i \in 1..Len(methods) : methods[i].m = method THEN methods
  ELSE Append(methods, [m |-> method, route |-> route])

\* methods[method] = route
SetMethod(methods, method, route) ==
  IF \E i \in 1..Len(methods) : methods[i].m = method
  THEN [i \in 1..Len(methods) |->
          IF methods[i].m = method THEN [m |-> method, route |-> route] ELSE methods[i]]
  ELSE Append(methods, [m |-> method, route |-> route])

\* the loop of addRoute over the route's methods, from list[i] on
RECURSIVE SetMethods(_, _, _, _)
SetMethods(methods, list, i, route) ==
  IF i > Len(list) THEN methods
  ELSE SetMethods(SetMethod(methods, list[i], route), list, i + 1, route)

\* addRoute were it to give an existing entry the router and the regex of
\* the route
SetEntry_Recompiles(m, route, router, i, re) ==
  IF ~re.ok THEN [map |-> m, threw |-> TRUE]
  ELSE LET m1 == IF i = 0
                 THEN Append(m, [key |-> route.path, router |-> router, regex |-> re,
                                 methods |-> <<>>])
                 ELSE [m EXCEPT ![i].router = router, ![i].regex = re]
           k  == IF i = 0 THEN Len(m1) ELSE i
       IN [map |-> [m1 EXCEPT ![k].methods = SetMethods(@, route.method, 1, route)],
           threw |-> FALSE]

\* addRoute for a key whose entry is m[i] (i = 0: no entry, and re is the
\* regex compiled for it)
SetEntry(m, route, router, i, re) ==
  IF i = 0 /\ ~re.ok THEN [map |-> m, threw |-> TRUE]
  ELSE LET m1 == IF i = 0
                 THEN Append(m, [key |-> route.path, router |-> router, regex |-> re,
                                 methods |-> <<>>])
                 ELSE m
           k  == IF i = 0 THEN Len(m1) ELSE i
       IN [map |-> [m1 EXCEPT ![k].methods = SetMethods(@, route.method, 1, route)],
           threw |-> FALSE]

\* addRoute(route, router) on the table m: the new table, and whether the
\* call threw (the SyntaxError of new RegExp)
addRoute(m, route, router) ==
  SetEntry(m, route, router, MapIndex(m, route.path), compileRouteRegex(route))

\* String.prototype.replace(/\/+$/, ''): without its trailing slashes
RECURSIVE StripTrailingSlashes(_)
StripTrailingSlashes(s) ==
  IF s # <<>> /\ s[Len(s)] = "/" THEN StripTrailingSlashes(SubSeq(s, 1, Len(s) - 1)) ELSE s

\* route.auth when the route declares none: no strategy, no scope
NoAuth == [strategy |-> <<>>, isOptional |-> FALSE, scope |-> <<>>]

\* route.payload when the route declares none: allowed, defaultContentType
\* and maxBytes are undefined
NoPayloadOptions ==
  [allowed |-> <<>>, defaultContentType |-> <<>>, maxBytes |-> 0, multipart |-> FALSE]

\* the options of the bundles cache, auth, security and payload that a
\* route definition or the defaults of a router can set
OptionKeys ==
  {"cache.maxAge", "auth.strategy", "auth.scope", "auth.isOptional", "security.noSniff",
   "payload.allowed"}

\* what a definition gives for an option: nothing, a value or an array
Undefined == [kind |-> "undefined", items |-> <<>>]
Value(v) == [kind |-> "value", items |-> <<v>>]
List(items) == [kind |-> "array", items |-> items]

\* the options of a definition that sets none
NoOptions == [k \in OptionKeys |-> Undefined]

\* a route definition; options holds what the definition itself writes in
\* its bundles, cache, security, auth and payload what execute() reads
Route(path, method, cs, mw, h) ==
  [path |-> path, method |-> method, isCaseSensitive |-> cs, excludeFileName |-> FALSE,
   middleware |-> mw, handler |-> h, cache |-> FALSE, security |-> FALSE,
   auth |-> NoAuth, payload |-> NoPayloadOptions, validation |-> FALSE,
   options |-> NoOptions]

\* the 404 (Not Found) route loadRoutes adds for the router
CatchAllRoute ==
  [Route(CATCH_ALL_ROUTE_PATH, <<"*">>, FALSE, <<>>, "notFound")
     EXCEPT !.auth.isOptional = TRUE, !.options["auth.isOptional"] = Value("true")]

\* the path loadRoutes gives a route definition of a file
DiscoveredPath(file, route) ==
  LET routePath == IF route.excludeFileName THEN file.relativePath
                   ELSE file.relativePath \o <<"/">> \o file.fileName
  IN IF routePath # <<>> THEN StripTrailingSlashes(routePath \o route.path) ELSE route.path

\* loadRoutes(router, path): the definitions of the files of the directory,
\* in the order of the walk, then the catch-all route
loadRoutes(dir) ==
  Flatten([f \in 1..Len(dir) |->
            [d \in 1..Len(dir[f].definitions) |->
               [dir[f].definitions[d] EXCEPT !.path = DiscoveredPath(dir[f], dir[f].definitions[d])]]])
  \o <<CatchAllRoute>>

\* the routes use() resolves for a router
ResolveRoutes(router) ==
  CASE router.kind = "dir"  -> loadRoutes(router.dirs[1])
    [] router.kind = "dirs" -> Flatten([d \in 1..Len(router.dirs) |-> loadRoutes(router.dirs[d])])
    [] router.kind = "list" -> router.routes

\* (router.basePath ?? '').replace(/^\/$/, '')
ResolveBasePath(basePath) == IF basePath = <<"/">> THEN <<>> ELSE basePath

RECURSIVE AddRoutes(_, _, _, _, _)

\* the forEach of use() after addRoute for routes[i] gave r
AddNext(routes, i, basePath, router, r) ==
  IF r.threw THEN r ELSE AddRoutes(r.map, routes, i + 1, basePath, router)

\* the forEach of use(): addRoute for routes[i], routes[i+1], ... until one throws
AddRoutes(m, routes, i, basePath, router) ==
  IF i > Len(routes) THEN [map |-> m, threw |-> FALSE]
  ELSE AddNext(routes, i, basePath, router,
               addRoute(m, [routes[i] EXCEPT !.path = basePath \o @], router))

\* deepmerge(x, y) of two values: arrays are concatenated, otherwise the
\* value of y wins; the key is kept as it is in x when y does not have it
deepmerge(x, y) ==
  IF y = Undefined THEN x
  ELSE IF x.kind = "array" /\ y.kind = "array" THEN List(x.items \o y.items)
       ELSE y

\* Array.isArray(v) ? v : [v], nothing when the option is undefined
AsArray(v) == v.items

\* merge(router.defaults as Route, route): the bundles are merged key by
\* key, every other property of the route is kept
merge(defaults, route) ==
  LET o == [k \in OptionKeys |-> deepmerge(defaults[k], route.options[k])] IN
  [route EXCEPT !.options = o,
                !.cache = o["cache.maxAge"] # Undefined,
                !.security = o["security.noSniff"] # Undefined,
                !.auth = [strategy   |-> AsArray(o["auth.strategy"]),
                          isOptional |-> o["auth.isOptional"] = Value("true"),
                          scope      |-> AsArray(o["auth.scope"])],
                !.payload.allowed = AsArray(o["payload.allowed"])]

\* the route use() registers for a route of the router: merged with the
\* defaults of the router when it has some
WithDefaults(router, route) ==
  IF router.defaults # NoOptions THEN merge(router.defaults, route) ELSE route

\* use(router) on the table m
use(m, router) ==
  AddRoutes(m, [i \in 1..Len(ResolveRoutes(router)) |->
                 WithDefaults(router, ResolveRoutes(router)[i])],
            1, ResolveBasePath(router.basePath), router.id)

\* start() on the table m: the catch-all entry becomes the last entry
start(m) ==
  LET i == MapIndex(m, CATCH_ALL_ROUTE_PATH) IN
  IF i = 0 THEN m
  ELSE SubSeq(m, 1, i - 1) \o SubSeq(m, i + 1, Len(m)) \o <<m[i]>>

RECURSIVE FirstMatch(_, _, _)

\* the loop of execute() were it to go on after the first entry accepting
\* the path, keeping the last one
Tested_Last(m, pathname, i, match) ==
  IF match.matched /\ FirstMatch(m, pathname, i + 1).idx = 0
  THEN [idx |-> i, groups |-> match.groups]
  ELSE FirstMatch(m, pathname, i + 1)

\* the body of the loop of execute() for the entry m[i], match being the
\* result of its regex on the path
Tested(m, pathname, i, match) ==
  IF match.matched THEN [idx |-> i, groups |-> match.groups]
  ELSE FirstMatch(m, pathname, i + 1)

\* the loop of execute(): the first entry from m[i] on whose regex accepts
\* the path, with the match, or idx = 0
FirstMatch(m, pathname, i) ==
  IF i > Len(m) THEN [idx |-> 0, groups |-> <<>>]
  ELSE Tested(m, pathname, i, RegExpExec(m[i].regex, pathname))

\* mapping.methods[req.method] || mapping.methods['*']: the index of the
\* binding in the entry's methods, or 0
ResolveMethod(methods, method) ==
  IF IndexOf(MethodKeys(methods), method) # 0 THEN IndexOf(MethodKeys(methods), method)
  ELSE IndexOf(MethodKeys(methods), "*")

\* ------------------------------------------------------------------------
\* core/response.ts: the response helpers used by the request lifecycle
\* ------------------------------------------------------------------------

\* the method names in the order Array.prototype.sort() puts them
SortOrder == <<"*", "DELETE", "GET", "PATCH", "POST", "PUT">>

\* methodNotAllowed() were it to leave the methods in the order of the keys
SortMethods_Unsorted(keys) == keys

\* supportedMethods.sort()
SortMethods(keys) == SelectSeq(SortOrder, LAMBDA m : m \in Range(keys))

\* Array.prototype.join(', ')
RECURSIVE Join(_)
Join(list) ==
  IF Len(list) <= 1 THEN list
  ELSE <<Head(list), ", ">> \o Join(Tail(list))

\* res.methodNotAllowed(supportedMethods) on the request record c
methodNotAllowed(c, supportedMethods) ==
  [c EXCEPT !.status = 405,
            !.allow  = IF Len(supportedMethods) > 0
                       THEN Join(SortMethods(supportedMethods)) ELSE @]

\* res.header('connection', 'close').serviceUnavailable()
serviceUnavailable(c) == [c EXCEPT !.connection = "close", !.status = 503]

\* res.redirect(url, 307)
redirect(c, url) == [c EXCEPT !.status = 307, !.location = url]

\* res.notFound()
notFound(c) == [c EXCEPT !.status = 404]

\* ------------------------------------------------------------------------
\* Bounds and the inputs the operations are called with
\* ------------------------------------------------------------------------

MaxRequests == 2          \* requests received by the server
MaxRegistrations == 2     \* calls of server.route() and server.router()
MaxApp == 2               \* calls of server.use()
MaxExtraNext == 1         \* calls of next() a request sees beyond one per interceptor
MaxSockets == 1           \* connections accepted by the server
MaxShutdowns == 2         \* calls of server.shutdown()
MaxChunks == 2            \* data events of a request body
MaxChunkLen == 3          \* bytes of a chunk
MaxParts == 3             \* fields of a multipart body
MaxCalls == 4             \* calls a handler makes on the response

ReqIds == 1..MaxRequests
SocketIds == 1..MaxSockets
ShutdownIds == 1..MaxShutdowns

NoRoute == Route(<<>>, <<>>, FALSE, <<>>, "none")

\* routes registered with server.route()
RouteA    == Route(<<"/", "a">>, <<"POST", "GET">>, FALSE, <<>>, "hA")
RouteStar == Route(<<"/", "a">>, <<"*">>, FALSE, <<>>, "hStar")
RouteX    == Route(<<"/", "{", "x", "}">>, <<"GET">>, FALSE, <<"t1">>, "hX")
RouteAny  == Route(CATCH_ALL_ROUTE_PATH, <<"*">>, FALSE, <<>>, "hAny")
Routes    == {RouteA, RouteStar, RouteX, RouteAny}

\* route directories: the files of the walk, with their definitions
DirB ==
  << [relativePath |-> <<>>, fileName |-> <<"b">>,
      definitions |-> << Route(<<>>, <<"GET">>, FALSE, <<>>, "hB") >>] >>
DirC ==
  << [relativePath |-> <<>>, fileName |-> <<"c">>,
      definitions |-> << Route(<<>>, <<"GET", "DELETE">>, FALSE, <<>>, "hC") >>] >>

\* routers registered with server.router()
RouterRoot ==
  [id |-> "root", basePath |-> <<>>, middleware |-> <<>>,
   defaults |-> NoOptions, kind |-> "dir",
   dirs |-> <<DirB>>, routes |-> <<>>]
RouterApi ==
  [id |-> "api", basePath |-> <<"/", "a">>, middleware |-> <<"r1">>,
   defaults |-> NoOptions, kind |-> "dirs",
   dirs |-> <<DirB, DirC>>, routes |-> <<>>]
RouterList ==
  [id |-> "list", basePath |-> <<"/">>, middleware |-> <<>>,
   defaults |-> NoOptions, kind |-> "list",
   dirs |-> <<>>, routes |-> << Route(<<"/", "b">>, <<"DELETE">>, FALSE, <<>>, "hL") >>]
Routers == {RouterRoot, RouterApi, RouterList}

\* a router with two middlewares, whose route has a middleware of its own
RouterNested ==
  [id |-> "nested", basePath |-> <<"/", "n">>, middleware |-> <<"r1", "r2">>,
   defaults |-> NoOptions, kind |-> "list",
   dirs |-> <<>>, routes |-> << Route(<<"/", "x">>, <<"GET">>, FALSE, <<"t1">>, "hN") >>]
\* a router mounted below the base path of RouterApi
RouterV2 ==
  [id |-> "v2", basePath |-> <<"/", "a", "/", "v">>, middleware |-> <<"r2">>,
   defaults |-> NoOptions, kind |-> "dir",
   dirs |-> <<DirB>>, routes |-> <<>>]
AllRouters == Routers \cup {RouterNested, RouterV2}

\* mapping.router?.middleware
RouterMiddleware(id) ==
  IF \E r \in AllRouters : r.id = id
  THEN (CHOOSE r \in AllRouters : r.id = id).middleware ELSE <<>>

\* the requests received
ReqPaths ==
  { <<"/", "a">>, <<"/", "b">>, <<"/", "a", "/", "c">>, <<"/", "a", "/", "b">>,
    <<"/", "b", "/", "c">>, <<"/", "a", "/">> }
ReqMethods == {"GET", "POST", "DELETE"}

\* the application middlewares registered with server.use()
AppMiddlewares == <<"g1", "g2", "g3">>

\* the data providers registered with server.data.provider(): those with a
\* destroy method, and those without
Providers == {"db", "cache", "pg", "s3"}
DestroyableProviders == {"db", "pg", "s3"}

\* the data providers the application has registered when the server starts
StartProviders == {"db", "cache"}

\* what the stages between method resolution and dispatch leave in the
\* response: 0 for no error, or the status of the failed stage
PipelineOutcomes == {0, 401, 400}

\* ------------------------------------------------------------------------
\* State
\* ------------------------------------------------------------------------

VARIABLES
  map,            \* RouterHandler.map: the route table
  routerStarted,  \* RouterHandler.start() has run
  regOrder,       \* history: the route paths in the order of their first registration
  regCount,       \* history: the calls of server.route() and server.router() so far
  middlewares,    \* MiddlewareHandler.middlewares: the global chain
  useLog,         \* history: the middlewares given to server.use(), in call order
  extraNext,      \* the calls of next() a request may see beyond one per interceptor
  req,            \* the requests: Request, Response and the chain executions of each
  listening,      \* the node server: "no", "yes" (listening) or "closed"
  isShuttingDown, \* Server.isShuttingDown
  closeCalls,     \* history: the calls of server.close()
  sockets,        \* Server.sockets
  sock,           \* the state of every socket, with its timer and promise of shutdown()
  requests,       \* Server.requests
  arrivedAfter,   \* history: the requests that arrived with the flag set
  sh,             \* the calls of Server.shutdown(): the position of each
  atSockets,      \* history: the in-flight requests when the socket phase began
  data            \* DataHandler: the calls of destroy() and the state of the entries

routerVars == <<map, routerStarted, regOrder, regCount>>
chainVars  == <<middlewares, useLog, extraNext>>
serverVars == <<listening, isShuttingDown, closeCalls, sockets, sock, requests,
                arrivedAfter, sh, atSockets, data>>

\* a request not yet received
\* req.auth of a new request: { isAuthenticated: false }
NoRequestAuth == [isAuthenticated |-> FALSE, scopes |-> <<>>, strategy |-> ""]

\* the body parsing of a request for which parse() has attached no listener
NoParsing ==
  [listening |-> FALSE, multipart |-> FALSE, maxBytes |-> 0, type |-> <<>>,
   receivedBytes |-> 0, chunks |-> <<>>, fields |-> <<>>, resolved |-> FALSE,
   aborted |-> FALSE, streamEnded |-> FALSE, closed |-> FALSE, arrived |-> 0,
   parts |-> <<>>,
   file |-> [open |-> FALSE, name |-> "", chunks |-> <<>>, arrived |-> 0], limits |-> <<>>]

\* ResponseCacheOptions; a maxAge of -1 is an undefined maxAge, set is
\* whether the response holds options at all
NoCacheOptions ==
  [set |-> FALSE, private |-> FALSE, public |-> FALSE, noStore |-> FALSE,
   noCache |-> FALSE, maxAge |-> -1]

\* the cache options of a route that declares some
RouteCacheOptions == [NoCacheOptions EXCEPT !.set = TRUE, !.public = TRUE, !.maxAge = 60]

\* the headers of the raw response the model follows; <<>> is a header not set
HeaderKeys == {"content-type", "cache-control", "set-cookie", "x-test"}

NoHeaders == [k \in HeaderKeys |-> <<>>]

\* the body handed to end(): none, a string, or an object; error is the
\* error property of an object, has whether the object has one
NoEnvelope == [has |-> FALSE, status |-> <<>>, message |-> "", details |-> ""]

NoBody == [kind |-> "none", error |-> NoEnvelope]

TextBody == [kind |-> "string", error |-> NoEnvelope]

ObjectBody == [kind |-> "object", error |-> NoEnvelope]

NoRequest ==
  [st |-> "none", socket |-> 0, sd |-> FALSE, method |-> "", pathname |-> <<>>,
   router |-> NoRouter, route |-> NoRoute, params |-> <<>>,
   status |-> 200, allow |-> <<>>, connection |-> "", location |-> <<>>,
   ended |-> FALSE, endedBy |-> "", finish |-> FALSE, close |-> FALSE,
   execs |-> <<>>, frames |-> <<>>, extra |-> 0,
   type |-> <<>>, credential |-> "none", auth |-> NoRequestAuth, tried |-> <<>>,
   stage |-> "", trace |-> <<>>, cacheOptions |-> NoCacheOptions,
   securityStaged |-> FALSE, headers |-> NoHeaders, details |-> "",
   body |-> NoBody, streaming |-> "", calls |-> 0, called |-> "",
   accept |-> [name |-> "", value |-> <<>>], parsing |-> NoParsing,
   payload |-> [set |-> FALSE, value |-> <<>>],
   headersSent |-> FALSE, error |-> 0, endCalls |-> 0, uncaught |-> <<>>,
   escaped |-> FALSE]

\* ------------------------------------------------------------------------
\* middleware/index.ts: execute() and its next closure.  An execution of a
\* chain is a record of req.execs (index is the closure's variable); every
\* invocation of an interceptor or handler is a record of req.frames, in
\* the order of the invocations.  The code of the framework runs to its
\* end or its first await within the step that invokes it; application
\* code (interceptors, route handlers) is suspended after its invocation
\* and continues in steps of its own.
\* ------------------------------------------------------------------------

\* the stack a chain execution runs
Stack(c, e) == IF c.execs[e].lvl = "global" THEN middlewares ELSE c.execs[e].stack

Frame(kind, e, name, pos, by, st) ==
  [kind |-> kind, exec |-> e, name |-> name, pos |-> pos, by |-> by, st |-> st,
   calls |-> 0, delegate |-> 0, key |-> <<>>, groups |-> <<>>]

Exec(lvl, stack, by, key, groups) ==
  [lvl |-> lvl, stack |-> stack, index |-> 0, by |-> by, hcalls |-> 0,
   key |-> key, groups |-> groups]

\* frame by makes a call: its first callee is the frame about to be created
Calls(c, by) ==
  IF by = 0 THEN c
  ELSE [c EXCEPT !.frames[by].calls = @ + 1,
                 !.frames[by].delegate = IF @ = 0 THEN Len(c.frames) + 1 ELSE @]

\* pathname && pathname !== '/' && pathname.endsWith('/')
HasTrailingSlash(pathname) ==
  pathname # <<>> /\ pathname # <<"/">> /\ pathname[Len(pathname)] = "/"

\* the shutdown middleware were it to let every request pass
ShuttingDownSeen_Never(c) == FALSE

\* req.server.isShuttingDown: the flag as it was when the request was created
ShuttingDownSeen(c) == c.sd

RECURSIVE next(_, _, _)
RECURSIVE Invoke(_, _)
RECURSIVE FinalHandler(_, _, _)
RECURSIVE routerExecute(_, _)
RECURSIVE execute(_, _, _, _, _, _)
RECURSIVE handler(_, _, _, _)
RECURSIVE Dispatch(_, _)

\* the next closure of chain execution e, called by frame by
next(c, e, by) ==
  LET c0 == Calls(c, by)
      ex == c0.execs[e]
  IN IF ex.index < Len(Stack(c0, e))
     THEN \* middlewares[index++](req, res, next)
          Invoke([c0 EXCEPT !.execs[e].index = @ + 1,
                            !.frames = Append(@, Frame("middleware", e, Stack(c0, e)[ex.index + 1],
                                                       ex.index + 1, by, "active"))],
                 Len(c0.frames) + 1)
     ELSE \* Done, call the handler
          FinalHandler([c0 EXCEPT !.execs[e].hcalls = @ + 1], e, by)

\* the body of the interceptor invoked as frame f
Invoke(c, f) ==
  LET name == c.frames[f].name
      e    == c.frames[f].exec
  IN CASE name = "LoggerMiddleware" ->
            next([c EXCEPT !.frames[f].st = "delegated"], e, f)
       [] name = "ShutdownMiddleware" ->
            IF ShuttingDownSeen(c)
            THEN serviceUnavailable([c EXCEPT !.frames[f].st = "returned"])
            ELSE next([c EXCEPT !.frames[f].st = "delegated"], e, f)
       [] name = "NoTrailingSlashMiddleware" ->
            IF HasTrailingSlash(c.pathname)
            THEN redirect([c EXCEPT !.frames[f].st = "returned"],
                          StripTrailingSlashes(c.pathname))
            ELSE next([c EXCEPT !.frames[f].st = "delegated"], e, f)
       [] OTHER -> c

\* execute(req, res, stack, handler), called by frame by
execute(c, lvl, stack, by, key, groups) ==
  next([c EXCEPT !.execs = Append(@, Exec(lvl, stack, by, key, groups))],
       Len(c.execs) + 1, by)

\* the handler a chain execution ends with
FinalHandler(c, e, by) ==
  CASE c.execs[e].lvl = "global" -> routerExecute(c, by)
    [] c.execs[e].lvl = "router" -> handler(c, c.execs[e].key, c.execs[e].groups, by)
    [] c.execs[e].lvl = "route"  -> Dispatch(c, by)

\* RouterHandler.execute(req, res) after its loop found fm
Routed(c, by, fm) ==
  LET f  == Len(c.frames) + 1
      c1 == [c EXCEPT !.frames = Append(@, Frame("execute", 0, "execute", 0, by, "delegated"))]
  IN IF fm.idx = 0
     THEN notFound([c1 EXCEPT !.frames[f].st = "returned"])
     ELSE LET mapping == map[fm.idx]
              c2 == [c1 EXCEPT !.router = mapping.router, !.frames[f].key = mapping.key]
          IN IF RouterMiddleware(mapping.router) # <<>>
             THEN execute(c2, "router", RouterMiddleware(mapping.router), f,
                          mapping.key, fm.groups)
             ELSE handler(Calls(c2, f), mapping.key, fm.groups, f)

\* RouterHandler.execute(req, res)
routerExecute(c, by) == Routed(c, by, FirstMatch(map, c.pathname, 1))

\* the handler closure of RouterHandler.execute, up to its first await
handler(c, key, groups, by) ==
  LET f  == Len(c.frames) + 1
      mapping == map[MapIndex(map, key)]
      k  == ResolveMethod(mapping.methods, c.method)
      c1 == [c EXCEPT !.frames = Append(@, [Frame("handler", 0, "handler", 0, by, "active")
                                             EXCEPT !.key = key, !.groups = groups])]
  IN IF k = 0
     THEN methodNotAllowed([c1 EXCEPT !.frames[f].st = "returned"],
                           MethodKeys(mapping.methods))
     ELSE [c1 EXCEPT !.route = mapping.methods[k].route]

\* route.handler(req, res), called by frame by
Dispatch(c, by) ==
  LET c1 == [c EXCEPT !.frames = Append(@, Frame("route", 0, c.route.handler, 0, by, "active"))]
      f  == Len(c1.frames)
  IN IF c.route.handler = "notFound"
     THEN notFound([c1 EXCEPT !.frames[f].st = "returned"])
     ELSE c1

\* the handler closure of RouterHandler.execute, from the end of its
\* stages on: the route middleware and the route handler
handlerDispatch(c, f, outcome) ==
  IF outcome # 0
  THEN [c EXCEPT !.status = outcome, !.frames[f].st = "returned"]
  ELSE LET c1 == [c EXCEPT !.params = c.frames[f].groups, !.frames[f].st = "delegated"] IN
       IF c.route.middleware # <<>>
       THEN execute(c1, "route", c.route.middleware, f, c.frames[f].key, c.frames[f].groups)
       ELSE Dispatch(Calls(c1, f), f)

\* the promise an invocation returned has settled
RECURSIVE Settled(_, _)
Settled(c, f) ==
  CASE c.frames[f].st = "returned"  -> TRUE
    [] c.frames[f].st = "thrown"    -> TRUE
    [] c.frames[f].st = "active"    -> FALSE
    [] c.frames[f].st = "delegated" ->
         c.frames[f].delegate # 0 /\ Settled(c, c.frames[f].delegate)

\* the invocation whose exception rejected the promise invocation f
\* returned, 0 if the promise is not rejected
RECURSIVE Thrower(_, _)
Thrower(c, f) ==
  CASE c.frames[f].st = "thrown"    -> f
    [] c.frames[f].st = "delegated" ->
         IF c.frames[f].delegate # 0 THEN Thrower(c, c.frames[f].delegate) ELSE 0
    [] OTHER -> 0

\* res.serverError(error) of the error invocation f threw
serverError(c, f) ==
  [c EXCEPT !.error = f, !.details = "", !.status = IF c.headersSent THEN @ ELSE 500]

\* get isError(): the status code is in the 4xx or 5xx range
isError(c) == c.status >= 400 /\ c.status < 600

\* get statusMessage(): STATUS_CODES[statusCode]
statusMessage(c) ==
  CASE c.status = 200 -> "OK"
    [] c.status = 400 -> "Bad Request"
    [] c.status = 404 -> "Not Found"
    [] c.status = 413 -> "Payload Too Large"
    [] c.status = 500 -> "Internal Server Error"
    [] OTHER -> ""

\* an exception a method of the response throws, recorded with the place
\* that called the method
Thrown(c, origin) == [c EXCEPT !.uncaught = Append(@, origin)]

\* whether the call that took the response from c to c1 threw
Threw(c, c1) == Len(c1.uncaught) > Len(c.uncaught)

\* res.header(key, value): it throws once the headers have been sent
header_NoCheck(c, key, value, origin) == [c EXCEPT !.headers[key] = value]

header(c, key, value, origin) ==
  IF c.headersSent THEN Thrown(c, origin)
  ELSE [c EXCEPT !.headers[key] = value]

\* res.type(contentType) (type names other things here)
resType(c, contentType, origin) == header(c, "content-type", <<contentType>>, origin)

\* `max-age=${options.maxAge}` for the ages the routes of the model use
MaxAgeDirective(maxAge) ==
  CASE maxAge = 0  -> "max-age=0"
    [] maxAge = 60 -> "max-age=60"

\* the directives cache() builds from the stored options
Directives(options, statusCode) ==
  IF statusCode = 200
  THEN IF options.noStore THEN <<"no-store">>
       ELSE (IF options.public THEN <<"public">> ELSE <<>>)
            \o (IF options.private THEN <<"private">> ELSE <<>>)
            \o (IF options.noCache THEN <<"no-cache">> ELSE <<>>)
            \o (IF options.maxAge # -1 THEN <<MaxAgeDirective(options.maxAge)>> ELSE <<>>)
  ELSE <<"no-store">>

\* res.cache(options): the options are stored
cacheStore_Applies(c, options, origin) ==
  header([c EXCEPT !.cacheOptions = options], "cache-control",
         Join(Directives(options, c.status)), origin)

cacheStore(c, options, origin) == [c EXCEPT !.cacheOptions = options]

\* res.cache(): the stored options become the cache-control header and
\* are cleared; header() may throw before they are cleared
cacheApply(c, origin) ==
  IF ~c.cacheOptions.set THEN c
  ELSE LET directives == Directives(c.cacheOptions, c.status)
           c1 == IF directives # <<>>
                 THEN header(c, "cache-control", Join(directives), origin)
                 ELSE c
       IN IF Threw(c, c1) THEN c1
          ELSE [c1 EXCEPT !.cacheOptions = NoCacheOptions]

\* Cookie.serialize(name, value, options)
Serialize(name, value) == <<name, "=", value>>

\* res.cookie(name, value): the cookie is added to the cookies already set
cookie(c, name, value, origin) ==
  IF c.headersSent THEN Thrown(c, origin)
  ELSE header(c, "set-cookie", Append(c.headers["set-cookie"], Serialize(name, value)),
              origin)

\* the decimal digits of a status code and the number they stand for
DigitChars == <<"0", "1", "2", "3", "4", "5", "6", "7", "8", "9">>

StatusDigits(n) ==
  <<DigitChars[(n \div 100) + 1], DigitChars[((n \div 10) % 10) + 1], DigitChars[(n % 10) + 1]>>

DigitValue(d) == (CHOOSE i \in 1..10 : DigitChars[i] = d) - 1

StatusNumber(digits) ==
  DigitValue(digits[1]) * 100 + DigitValue(digits[2]) * 10 + DigitValue(digits[3])

\* the default body of an error response
Envelope(c) ==
  [kind |-> "object",
   error |-> [has |-> TRUE, status |-> c.status, message |-> statusMessage(c),
              details |-> c.details]]

\* JSON.stringify(body) of an object: numbers become their digits
Stringify(body) ==
  [kind |-> "json",
   error |-> IF ~body.error.has THEN NoEnvelope
             ELSE [body.error EXCEPT !.status = StatusDigits(@)]]

\* res.end(body) called by by: it throws when the response has finished;
\* an error response with no body gets the envelope; an object sets the
\* content type, which throws once the headers have been sent, as the
\* cache header does; an exception thrown in the finally block of the
\* request handler escapes it
end(c, body, by) ==
  LET Escapes(c1) == [c1 EXCEPT !.escaped = (@ \/ by = "finally")] IN
  IF c.ended THEN Escapes(Thrown(c, by))
  ELSE LET b1 == IF isError(c) /\ body.kind = "none" THEN Envelope(c) ELSE body
           c1 == IF b1.kind = "object" THEN resType(c, "application/json", by) ELSE c
       IN IF Threw(c, c1) THEN Escapes(c1)
          ELSE LET c2 == cacheApply(c1, by)
               IN IF Threw(c1, c2) THEN Escapes(c2)
                  ELSE [c2 EXCEPT !.ended = TRUE, !.headersSent = TRUE,
                                  !.endCalls = @ + 1, !.endedBy = by,
                                  !.body = IF b1.kind = "object" THEN Stringify(b1) ELSE b1]

\* ------------------------------------------------------------------------
\* Operations on the route table (server/index.ts route(), router();
\* router/index.ts start())
\* ------------------------------------------------------------------------

\* the keys of m2 that m1 does not have, in the order of m2
NewKeys(m1, m2) == SelectSeq(MapKeys(m2), LAMBDA k : MapIndex(m1, k) = 0)

Registered(m) ==
  /\ regCount < MaxRegistrations
  /\ map' = m
  /\ regOrder' = regOrder \o NewKeys(map, m)
  /\ regCount' = regCount + 1
  /\ UNCHANGED routerStarted

\* server.route(route)
ServerRoute(route) == Registered(addRoute(map, route, NoRouter).map)

\* server.router(router)
ServerRouter(router) == Registered(use(map, router).map)

\* routerHandler.start(), called by server.start()
RouterStart ==
  /\ ~routerStarted
  /\ routerStarted' = TRUE
  /\ map' = start(map)
  /\ UNCHANGED <<regOrder, regCount>>

\* ------------------------------------------------------------------------
\* The steps of a request (server/index.ts requestHandler and the code it
\* runs)
\* ------------------------------------------------------------------------

BuiltIns == {"LoggerMiddleware", "ShutdownMiddleware", "NoTrailingSlashMiddleware"}

\* the request id the next request gets
FreeId == CHOOSE r \in ReqIds : req[r].st = "none" /\ \A q \in 1..(r - 1) : req[q].st # "none"

\* requestHandler(rawReq, rawRes) up to its await: the request and response
\* are created and the global chain is started
Received(r, socket, sd, method, pathname) ==
  execute([NoRequest EXCEPT !.st = "active", !.socket = socket, !.sd = sd,
                            !.method = method, !.pathname = pathname],
          "global", <<>>, 0, <<>>, <<>>)

\* nothing that was invoked after frame f is still running
Quiet(c, f) == \A g \in (f + 1)..Len(c.frames) : c.frames[g].st # "active"

\* an application interceptor calls next(); it calls next() again only once
\* all that its previous call invoked has come to its end
MiddlewareCallsNext(r, f) ==
  LET c == req[r] IN
  /\ c.st # "none"
  /\ f \in 1..Len(c.frames)
  /\ c.frames[f].kind = "middleware" /\ c.frames[f].st = "active"
  /\ \/ c.frames[f].calls = 0
     \/ c.frames[f].calls > 0 /\ c.extra < extraNext /\ Quiet(c, f)
  /\ req' = [req EXCEPT ![r] =
               next([c EXCEPT !.extra = IF c.frames[f].calls = 0 THEN @ ELSE @ + 1],
                    c.frames[f].exec, f)]

\* an application interceptor returns
MiddlewareReturns(r, f) ==
  LET c == req[r] IN
  /\ c.st # "none"
  /\ f \in 1..Len(c.frames)
  /\ c.frames[f].kind = "middleware" /\ c.frames[f].st = "active"
  /\ req' = [req EXCEPT ![r].frames[f].st = "returned"]

\* the stages of the handler closure (authentication, parameters, body
\* parsing, validation) come to their end
HandlerStages(r, f, outcome) ==
  LET c == req[r] IN
  /\ c.st # "none"
  /\ f \in 1..Len(c.frames)
  /\ c.frames[f].kind = "handler" /\ c.frames[f].st = "active"
  /\ req' = [req EXCEPT ![r] = handlerDispatch(c, f, outcome)]

\* a route handler returns, having ended the response or not
RouteHandlerReturns(r, f, ends) ==
  LET c == req[r] IN
  /\ c.st # "none"
  /\ f \in 1..Len(c.frames)
  /\ c.frames[f].kind = "route" /\ c.frames[f].st = "active"
  /\ req' = [req EXCEPT ![r] = [IF ends /\ ~c.ended THEN end(c, TextBody, "handler") ELSE c
                                   EXCEPT !.frames[f].st = "returned"]]

\* requestHandler after its await: the catch block
Caught(c) == IF Thrower(c, 1) # 0 THEN serverError(c, Thrower(c, 1)) ELSE c

\* requestHandler after its await: the finally block
Finished(c) == [IF c.ended THEN c ELSE end(c, NoBody, "finally") EXCEPT !.st = "handled"]

Finally(r) ==
  LET c == req[r] IN
  /\ c.st = "active"
  /\ Settled(c, 1)
  /\ req' = [req EXCEPT ![r] = Finished(Caught(c))]

\* the steps requests take once received
RequestStep ==
  \E r \in ReqIds :
    \/ \E f \in 1..Len(req[r].frames) :
         \/ MiddlewareCallsNext(r, f)
         \/ MiddlewareReturns(r, f)
         \/ \E outcome \in PipelineOutcomes : HandlerStages(r, f, outcome)
         \/ \E ends \in BOOLEAN : RouteHandlerReturns(r, f, ends)
    \/ Finally(r)

\* ------------------------------------------------------------------------
\* The stages of the handler closure of RouterHandler.execute: auth/index.ts
\* authenticate, core/request.ts isAuthorized and parse.  Strings whose
\* content the code inspects (content types, scopes, body chunks) are
\* sequences of characters; a character is one byte.
\* ------------------------------------------------------------------------

\* String.prototype.toLowerCase()
ToLowerCase(s) ==
  [i \in 1..Len(s) |-> CASE s[i] = "A" -> "a" [] s[i] = "J" -> "j" [] s[i] = "M" -> "m"
                         [] s[i] = "F" -> "f" [] OTHER -> s[i]]

\* String.prototype.includes(t)
Includes(s, t) == \E i \in 0..(Len(s) - Len(t)) : SubSeq(s, i + 1, i + Len(t)) = t

\* the content types: application/json, application/x-www-form-urlencoded,
\* multipart/form-data, text/plain
ApplicationJson   == <<"a", "/", "j">>
FormUrlEncoded    == <<"a", "/", "u">>
MultipartFormData == <<"m", "/", "f">>
TextPlain         == <<"t", "/", "p">>

\* the allowed content types of a route that declares none
DefaultAllowed == <<ApplicationJson, FormUrlEncoded, MultipartFormData>>

\* the maximum size of a route that declares none: 1 * 1024 * 1024
DefaultMaxBytes == 1048576

\* the methods that allow a payload
PayloadMethods == {"POST", "PUT", "PATCH", "DELETE"}

\* the content type were the default content type of the route left out
EffectiveType_HeaderOnly(c) ==
  ToLowerCase(IF c.type # <<>> THEN c.type ELSE ApplicationJson)

\* (this.type || this.route.payload?.defaultContentType || 'application/json').toLowerCase()
EffectiveType(c) ==
  ToLowerCase(IF c.type # <<>> THEN c.type
              ELSE IF c.route.payload.defaultContentType # <<>>
                   THEN c.route.payload.defaultContentType
                   ELSE ApplicationJson)

\* the allowed content type(s) of the route
AllowedTypes(route) ==
  IF route.payload.allowed # <<>> THEN route.payload.allowed ELSE DefaultAllowed

\* this.route.payload?.maxBytes || 1 * 1024 * 1024
MaxBytesOf(route) ==
  IF route.payload.maxBytes # 0 THEN route.payload.maxBytes ELSE DefaultMaxBytes

\* allowed.some(t => type.includes(t))
IsAllowedType(type, allowed) == \E i \in 1..Len(allowed) : Includes(type, allowed[i])

\* res.status(code) called by origin: it throws once the headers have been
\* sent; the exception is recorded with the place that called
status(c, code, origin) ==
  IF c.headersSent
  THEN Thrown(c, origin)
  ELSE [c EXCEPT !.status = code]

\* res.badRequest(details): details of "" are no details
badRequest(c, details, origin) ==
  status(IF details # "" THEN [c EXCEPT !.details = details] ELSE c, 400, origin)

\* res.stream(stream) to the piping of the stream: it throws when the
\* response has finished
stream(c, origin) ==
  IF c.ended THEN Thrown(c, origin) ELSE [c EXCEPT !.streaming = "piped"]

\* the first data event of a piped stream: the once('data') listener calls
\* cache(), then the pipe writes the chunk, which sends the headers
StreamFirstData(c) == [cacheApply(c, "stream") EXCEPT !.headersSent = TRUE, !.streaming = "data"]

\* the end event of a piped stream: the pipe ends the raw response
StreamFinished(c) ==
  [c EXCEPT !.streaming = "ended", !.headersSent = TRUE, !.ended = TRUE,
            !.endedBy = IF c.ended THEN @ ELSE "pipe"]

\* res.unsupportedMediaType(supportedMediaTypes)
unsupportedMediaType(c, supportedMediaTypes) ==
  LET name == CASE c.method = "POST"  -> "accept-post"
                [] c.method = "PATCH" -> "accept-patch"
                [] OTHER -> ""
  IN [c EXCEPT !.status = 415,
               !.accept = IF Len(supportedMediaTypes) > 0 /\ name # ""
                          THEN [name |-> name, value |-> Join(supportedMediaTypes)]
                          ELSE @]

\* the strategies registered with server.auth.use(), and what each answers
\* to the credential a request carries: strategy s1 knows the credentials
\* k0 (no scopes), k1 and k12 (scope a), strategy s2 the credentials k2
\* (scope b) and k12 (scopes a and b)
Strategies == {"s1", "s2"}

Credentials == {"none", "k0", "k1", "k2", "k12"}

Unauthenticated == [isAuthenticated |-> FALSE, scopes |-> <<>>, strategy |-> ""]

Authenticated(scopes) == [isAuthenticated |-> TRUE, scopes |-> scopes, strategy |-> ""]

\* strategy.authenticate(req) of the strategy registered as name
StrategyAuthenticate(name, credential) ==
  CASE name = "s1" /\ credential = "k0"  -> Authenticated(<<>>)
    [] name = "s1" /\ credential \in {"k1", "k12"} -> Authenticated(<< <<"a">> >>)
    [] name = "s2" /\ credential = "k2"  -> Authenticated(<< <<"b">> >>)
    [] name = "s2" /\ credential = "k12" -> Authenticated(<< <<"a">>, <<"b">> >>)
    [] OTHER -> Unauthenticated

\* AuthHandler.authenticate(req, name): the request after the call, which
\* returned true if and only if the strategy authenticated
authenticate(c, name) ==
  LET c1 == [c EXCEPT !.tried = Append(@, name)] IN
  IF name \notin Strategies THEN c1
  ELSE LET auth == StrategyAuthenticate(name, c.credential) IN
       IF auth.isAuthenticated
       THEN [c1 EXCEPT !.auth = [auth EXCEPT !.strategy = name]]
       ELSE c1

\* isAuthorized() were it to check only that the request has scopes
isAuthorized_AnyGranted(c, scopes) == Len(c.auth.scopes) > 0

\* the scopes among which at least one must be granted
OrScopes(scopes) == SelectSeq(scopes, LAMBDA x : x[1] \notin {"+", "!"})

\* isAuthorized() were it to go on when the request has no scopes
isAuthorized_NoEmptyCheck(c, scopes) ==
  /\ \A i \in 1..Len(scopes) :
       /\ scopes[i][1] = "+" => Tail(scopes[i]) \in Range(c.auth.scopes)
       /\ scopes[i][1] = "!" => Tail(scopes[i]) \notin Range(c.auth.scopes)
  /\ \/ Len(OrScopes(scopes)) = 0
     \/ \E i \in 1..Len(OrScopes(scopes)) : OrScopes(scopes)[i] \in Range(c.auth.scopes)

\* Request.isAuthorized(scope)
isAuthorized(c, scopes) ==
  IF Len(c.auth.scopes) = 0 THEN FALSE
  ELSE /\ \A i \in 1..Len(scopes) :
            /\ scopes[i][1] = "+" => Tail(scopes[i]) \in Range(c.auth.scopes)
            /\ scopes[i][1] = "!" => Tail(scopes[i]) \notin Range(c.auth.scopes)
       /\ \/ Len(OrScopes(scopes)) = 0
          \/ \E i \in 1..Len(OrScopes(scopes)) : OrScopes(scopes)[i] \in Range(c.auth.scopes)

\* JSON.parse(data) succeeds: the bodies are numbers (digits) or not JSON
JsonValid(text) == text # <<>> /\ \A i \in 1..Len(text) : text[i] = "1"

\* the payload the end listener makes of the accumulated data
ParsedPayload(type, text) ==
  CASE Includes(type, ApplicationJson) -> [kind |-> "json", data |-> text]
    [] Includes(type, FormUrlEncoded)  -> [kind |-> "querystring", data |-> text]
    [] OTHER                           -> [kind |-> "text", data |-> text]

\* resolve() of the promise parse() returned
Resolve(c) == [c EXCEPT !.parsing.resolved = TRUE]

\* the data listener of parse() (not multipart) receives a chunk; the
\* exception of payloadTooLarge(), once the headers are sent, ends it
OnData(c, chunk) ==
  LET c1 == [c EXCEPT !.parsing.receivedBytes = Len(chunk), !.parsing.arrived = @ + 1]
  IN IF c1.parsing.receivedBytes > c1.parsing.maxBytes
     THEN IF c1.headersSent THEN status(c1, 413, "data")
          ELSE [Resolve([status(c1, 413, "data") EXCEPT !.parsing.aborted = TRUE])
                  EXCEPT !.parsing.chunks = Append(@, chunk)]
     ELSE [c1 EXCEPT !.parsing.chunks = Append(@, chunk)]

\* the end listener of parse() (not multipart)
OnEnd(c) ==
  LET text == Flatten(c.parsing.chunks)
      c1 == [c EXCEPT !.parsing.streamEnded = TRUE]
  IN Resolve(IF Len(c.parsing.chunks) > 0
             THEN IF Includes(c.parsing.type, ApplicationJson) /\ ~JsonValid(text)
                  THEN [status(c1, 400, "end") EXCEPT !.parsing.aborted = TRUE]
                  ELSE [c1 EXCEPT !.payload =
                          [set |-> TRUE, value |-> ParsedPayload(c.parsing.type, text)]]
             ELSE c1)

\* payload[name] of the multipart payload object: its position, 0 if absent
FieldIndex(fields, name) ==
  IF \E i \in 1..Len(fields) : fields[i].name = name
  THEN CHOOSE i \in 1..Len(fields) : fields[i].name = name ELSE 0

\* if (payload[name]): the value exists and is not falsy (the empty string)
Truthy(fields, name) ==
  /\ FieldIndex(fields, name) # 0
  /\ fields[FieldIndex(fields, name)].isArray
       \/ fields[FieldIndex(fields, name)].value # <<>>

\* the setValue helper of parse(): a scalar is kept as .value, an array as
\* .items
setValue(fields, name, value) ==
  LET i == FieldIndex(fields, name) IN
  IF Truthy(fields, name)
  THEN [fields EXCEPT ![i] =
          IF @.isArray THEN [@ EXCEPT !.items = Append(@, value)]
          ELSE [@ EXCEPT !.isArray = TRUE, !.items = <<fields[i].value, value>>,
                         !.value = <<>>]]
  ELSE IF i # 0
       THEN [fields EXCEPT ![i].value = value]
       ELSE Append(fields, [name |-> name, isArray |-> FALSE, value |-> value, items |-> <<>>])

\* the info of a field that busboy did not truncate
NoInfo == [valueTruncated |-> FALSE, nameTruncated |-> FALSE]

\* the calls of a listener that set an error status, one after the other:
\* the first throws once the headers are sent and ends the listener,
\* otherwise each sets its status and resolves the promise of parse()
RECURSIVE Breaches(_, _, _)
Breaches(c, codes, origin) ==
  IF codes = <<>> THEN c
  ELSE Breaches(Resolve([status(c, Head(codes), origin) EXCEPT !.parsing.aborted = TRUE]),
                Tail(codes), origin)

\* the listener goes on after its checks: no call of status() has thrown
GoesOn(c, codes) == codes = <<>> \/ ~c.headersSent

\* the checks of the field listener of busboy that fail, in their order
FieldBreaches(c, value, info) ==
  (IF c.parsing.receivedBytes + Len(value) > c.parsing.maxBytes THEN <<413>> ELSE <<>>)
    \o (IF info.valueTruncated THEN <<413>> ELSE <<>>)
    \o (IF info.nameTruncated THEN <<400>> ELSE <<>>)

\* the field listener of busboy; the exception of payloadTooLarge() or
\* badRequest(), once the headers are sent, ends it
OnField(c, name, value, info) ==
  LET codes == FieldBreaches(c, value, info)
      c1 == [c EXCEPT !.parsing.receivedBytes = @ + Len(value), !.parsing.arrived = @ + 1]
  IN IF GoesOn(c, codes)
     THEN [Breaches(c1, codes, "field")
             EXCEPT !.parsing.fields = setValue(@, name, value),
                    !.parsing.parts = Append(@, [name |-> name, value |-> value,
                                                 info |-> info])]
     ELSE status(c1, Head(codes), "field")

\* the file listener of busboy: the chunks of the file, and its listeners
OnFile(c, name) ==
  [c EXCEPT !.parsing.file = [open |-> TRUE, name |-> name, chunks |-> <<>>, arrived |-> 0],
            !.parsing.arrived = @ + 1]

\* the data listener of a file
OnFileData(c, chunk) ==
  LET codes == IF Len(chunk) > c.parsing.maxBytes THEN <<413>> ELSE <<>>
      c1 == [c EXCEPT !.parsing.receivedBytes = Len(chunk), !.parsing.file.arrived = @ + 1]
  IN IF GoesOn(c, codes)
     THEN [Breaches(c1, codes, "file") EXCEPT !.parsing.file.chunks = Append(@, chunk)]
     ELSE status(c1, 413, "file")

\* the value of a file in the payload: its info and its buffer
FileValue(chunks) == <<"file">> \o Flatten(chunks)

\* the end listener of a file
OnFileEnd(c, truncated) ==
  LET codes == IF truncated THEN <<413>> ELSE <<>>
      name  == c.parsing.file.name
      value == FileValue(c.parsing.file.chunks)
      c1 == [c EXCEPT !.parsing.file.open = FALSE]
  IN IF GoesOn(c, codes)
     THEN [Breaches(c1, codes, "file")
             EXCEPT !.parsing.fields = setValue(@, name, value),
                    !.parsing.parts = Append(@, [name |-> name, value |-> value,
                                                 info |-> [NoInfo EXCEPT !.valueTruncated = truncated]])]
     ELSE status(c1, 413, "file")

\* the partsLimit, fieldsLimit and filesLimit listeners of busboy
OnLimit(c, limit) ==
  LET c1 == [c EXCEPT !.parsing.limits = Append(@, limit)]
  IN IF GoesOn(c, <<413>>) THEN Breaches(c1, <<413>>, limit) ELSE status(c1, 413, limit)

\* the finish listener of busboy
OnFinish(c) ==
  Resolve([c EXCEPT !.parsing.streamEnded = TRUE,
                    !.payload = [set |-> TRUE,
                                 value |-> [kind |-> "multipart", data |-> c.parsing.fields]]])

\* Busboy({ headers }) throws when the content type names no boundary
HasBoundary(type) == Includes(type, <<";", "b">>)

\* req.parse() up to the promise it returns
parse(c) ==
  LET type == EffectiveType(c)
      c1   == [c EXCEPT !.trace = Append(@, "parse")]
  IN IF c.method \notin PayloadMethods THEN Resolve(c1)
     ELSE IF ~IsAllowedType(type, AllowedTypes(c.route))
          THEN Resolve(unsupportedMediaType(c1, AllowedTypes(c.route)))
          ELSE IF Includes(type, MultipartFormData) /\ ~HasBoundary(type)
               THEN Resolve([c1 EXCEPT !.status = 400, !.parsing.aborted = TRUE])
               ELSE [c1 EXCEPT !.parsing.listening = TRUE,
                               !.parsing.multipart = Includes(type, MultipartFormData),
                               !.parsing.type = type,
                               !.parsing.maxBytes = MaxBytesOf(c.route)]

\* the handler closure from the parameters on, up to await req.parse()
Params(c, f) ==
  parse([c EXCEPT !.params = c.frames[f].groups, !.trace = Append(@, "params"),
                  !.stage = "parse"])

\* the handler closure returns the response in error
ReturnStatus(c, f, code) ==
  [c EXCEPT !.status = code, !.frames[f].st = "returned", !.stage = "done"]

\* the handler closure once the loop over the strategies is over
AfterAuth(c, f, isAuthenticated) ==
  IF ~isAuthenticated /\ ~c.route.auth.isOptional
  THEN ReturnStatus(c, f, 401)
  ELSE IF c.route.auth.scope # <<>> /\ ~isAuthorized(c, c.route.auth.scope)
       THEN ReturnStatus(c, f, 403)
       ELSE Params(c, f)

\* the handler closure were it to check the scope of a route that declares
\* no strategy
Stages_ChecksScope(c, f) ==
  LET c1 == [c EXCEPT !.securityStaged = c.route.security,
                      !.trace = Append(@, "stage")]
  IN IF c.route.auth.strategy # <<>>
     THEN [c1 EXCEPT !.stage = "auth"]
     ELSE AfterAuth(c1, f, TRUE)

\* the handler closure from the pinning of the route to its first await:
\* the cache and security options are staged, then authentication begins,
\* or the parameters are copied and parse() is called
Stages(c, f) ==
  LET c0 == IF c.method = "GET" /\ c.route.cache
            THEN cacheStore(c, RouteCacheOptions, "execute") ELSE c
      c1 == [c0 EXCEPT !.securityStaged = c.route.security,
                      !.trace = Append(@, "stage")]
  IN IF c.route.auth.strategy # <<>>
     THEN [c1 EXCEPT !.stage = "auth"]
     ELSE Params(c1, f)

\* the loop over the strategies were it to go on after a strategy authenticated
AuthenticateNext_All(c, f) ==
  LET c1 == [authenticate(c, c.route.auth.strategy[Len(c.tried) + 1])
               EXCEPT !.trace = Append(@, "authenticate")]
  IN IF Len(c1.tried) < Len(c.route.auth.strategy) THEN c1
     ELSE AfterAuth(c1, f, c1.auth.isAuthenticated)

\* await req.authenticate(strategy) of the next strategy has resolved
AuthenticateNext(c, f) ==
  LET c1 == [authenticate(c, c.route.auth.strategy[Len(c.tried) + 1])
               EXCEPT !.trace = Append(@, "authenticate")]
  IN IF c1.auth.isAuthenticated THEN AfterAuth(c1, f, TRUE)
     ELSE IF Len(c1.tried) < Len(c.route.auth.strategy) THEN c1
          ELSE AfterAuth(c1, f, FALSE)

\* the handler closure after await req.parse(): validation (valid says what
\* req.validate() finds), the check of the response, the route middleware
\* and the route handler
Validate(c, valid) ==
  [c EXCEPT !.trace = Append(Append(@, "parsed"), "validate"),
            !.status = IF c.route.validation /\ ~valid /\ ~isError(c) THEN 400 ELSE @]

AfterParse(c, f, valid) ==
  handlerDispatch([Validate(c, valid) EXCEPT !.stage = "done"], f,
                  IF isError(Validate(c, valid)) THEN Validate(c, valid).status ELSE 0)

\* the handler closure of request r, invocation f, goes on after the route
\* is pinned
HandlerBegins(r, f) ==
  LET c == req[r] IN
  /\ c.st # "none"
  /\ f \in 1..Len(c.frames)
  /\ c.frames[f].kind = "handler" /\ c.frames[f].st = "active" /\ c.stage = ""
  /\ req' = [req EXCEPT ![r] = Stages(c, f)]

\* the strategy the handler closure awaits has answered
AuthSettles(r, f) ==
  LET c == req[r] IN
  /\ c.st # "none"
  /\ f \in 1..Len(c.frames)
  /\ c.frames[f].kind = "handler" /\ c.frames[f].st = "active" /\ c.stage = "auth"
  /\ req' = [req EXCEPT ![r] = AuthenticateNext(c, f)]

\* the strategy the handler closure awaits has rejected
AuthRejects(r, f) ==
  LET c == req[r] IN
  /\ c.st # "none"
  /\ f \in 1..Len(c.frames)
  /\ c.frames[f].kind = "handler" /\ c.frames[f].st = "active" /\ c.stage = "auth"
  /\ req' = [req EXCEPT ![r].frames[f].st = "thrown", ![r].stage = "done",
                        ![r].tried = Append(@, c.route.auth.strategy[Len(c.tried) + 1]),
                        ![r].trace = Append(@, "authenticate")]

\* the handler closure were it to go on without awaiting parse()
ParseAwaited_NoAwait(c) == TRUE

\* await req.parse(): the closure goes on once the promise is resolved
ParseAwaited(c) == c.parsing.resolved

\* the promise of parse() is resolved and the handler closure goes on
ParseResolved(r, f, valid) ==
  LET c == req[r] IN
  /\ c.st # "none"
  /\ f \in 1..Len(c.frames)
  /\ c.frames[f].kind = "handler" /\ c.frames[f].st = "active" /\ c.stage = "parse"
  /\ ParseAwaited(c)
  /\ req' = [req EXCEPT ![r] = AfterParse(c, f, valid)]

\* the request stream emits data
StreamData(r, chunk) ==
  LET c == req[r] IN
  /\ c.st # "none"
  /\ c.parsing.listening /\ ~c.parsing.multipart /\ ~c.parsing.streamEnded
  /\ ~c.parsing.closed
  /\ c.parsing.arrived < MaxChunks
  /\ req' = [req EXCEPT ![r] = OnData(c, chunk)]

\* the request stream emits end
StreamEnd(r) ==
  LET c == req[r] IN
  /\ c.st # "none"
  /\ c.parsing.listening /\ ~c.parsing.multipart /\ ~c.parsing.streamEnded
  /\ ~c.parsing.closed
  /\ req' = [req EXCEPT ![r] = OnEnd(c)]

\* the request stream is destroyed before the end of the body (the client
\* aborts, the connection closes or the stream errors): it emits 'close',
\* and 'error' to the listeners of 'error', and then neither 'data' nor
\* 'end'; parse() has attached no listener for either event, and pipe()
\* does not end busboy when its source is destroyed
StreamCloses(r) ==
  LET c == req[r] IN
  /\ c.st # "none"
  /\ c.parsing.listening /\ ~c.parsing.streamEnded /\ ~c.parsing.closed
  /\ req' = [req EXCEPT ![r].parsing.closed = TRUE]

\* busboy is reading the parts of the multipart body of request r
BusboyReads(r) ==
  /\ req[r].st # "none"
  /\ req[r].parsing.listening /\ req[r].parsing.multipart /\ ~req[r].parsing.streamEnded
  /\ ~req[r].parsing.closed

\* busboy goes on to the next part: the part before is over, and a parts
\* limit, once reached, makes it skip the parts that follow
NextPart(r) ==
  /\ BusboyReads(r)
  /\ ~req[r].parsing.file.open
  /\ "partsLimit" \notin Range(req[r].parsing.limits)
  /\ req[r].parsing.arrived < MaxParts

\* busboy emits a field of the multipart body
BusboyField(r, name, value) ==
  /\ NextPart(r)
  /\ "fieldsLimit" \notin Range(req[r].parsing.limits)
  /\ req' = [req EXCEPT ![r] = OnField(req[r], name, value, NoInfo)]

\* busboy emits a field it has truncated to fieldSize or fieldNameSize
BusboyFieldTruncated(r, name, value, info) ==
  /\ NextPart(r)
  /\ "fieldsLimit" \notin Range(req[r].parsing.limits)
  /\ info # NoInfo
  /\ info.valueTruncated => value # <<>>
  /\ req' = [req EXCEPT ![r] = OnField(req[r], name, value, info)]

\* busboy emits a file of the multipart body
BusboyFile(r, name) ==
  /\ NextPart(r)
  /\ "filesLimit" \notin Range(req[r].parsing.limits)
  /\ req' = [req EXCEPT ![r] = OnFile(req[r], name)]

\* the file emits data
BusboyFileData(r, chunk) ==
  /\ BusboyReads(r)
  /\ req[r].parsing.file.open /\ req[r].parsing.file.arrived < MaxChunks - 1
  /\ req' = [req EXCEPT ![r] = OnFileData(req[r], chunk)]

\* the file emits end; it is truncated only if the route declares a fileSize
BusboyFileEnd(r, truncated) ==
  /\ BusboyReads(r)
  /\ req[r].parsing.file.open
  /\ truncated => (req[r].route.payload.multipart /\ req[r].parsing.file.chunks # <<>>)
  /\ req' = [req EXCEPT ![r] = OnFileEnd(req[r], truncated)]

\* busboy emits partsLimit, fieldsLimit or filesLimit, once each and only
\* if the route declares the limits of the multipart body
BusboyLimit(r, limit) ==
  /\ BusboyReads(r)
  /\ ~req[r].parsing.file.open
  /\ req[r].route.payload.multipart
  /\ req[r].parsing.limits = <<>>
  /\ req' = [req EXCEPT ![r] = OnLimit(req[r], limit)]

\* busboy emits finish
BusboyFinish(r) ==
  /\ BusboyReads(r)
  /\ ~req[r].parsing.file.open
  /\ req' = [req EXCEPT ![r] = OnFinish(req[r])]

\* an application interceptor throws, or rethrows what next() rejected with
MiddlewareThrows(r, f) ==
  LET c == req[r] IN
  /\ c.st # "none"
  /\ f \in 1..Len(c.frames)
  /\ c.frames[f].kind = "middleware" /\ c.frames[f].st = "active"
  /\ req' = [req EXCEPT ![r].frames[f].st = "thrown"]

\* a route handler throws, having ended the response or not
RouteHandlerThrows(r, f, ends) ==
  LET c == req[r] IN
  /\ c.st # "none"
  /\ f \in 1..Len(c.frames)
  /\ c.frames[f].kind = "route" /\ c.frames[f].st = "active"
  /\ req' = [req EXCEPT ![r] = [IF ends /\ ~c.ended THEN end(c, TextBody, "handler") ELSE c
                                   EXCEPT !.frames[f].st = "thrown"]]

\* a route handler sets the status and returns res.stream(stream); the
\* stream fails after its first data: the cache header is set and the
\* headers are sent with the data, the error listener calls serverError()
\* and rejects
RouteHandlerStreamFails(r, f, code) ==
  LET c == req[r] IN
  /\ c.st # "none"
  /\ f \in 1..Len(c.frames)
  /\ c.frames[f].kind = "route" /\ c.frames[f].st = "active"
  /\ ~c.headersSent
  /\ req' = [req EXCEPT ![r] =
               serverError([cacheApply([c EXCEPT !.status = code], "stream")
                              EXCEPT !.headersSent = TRUE, !.frames[f].st = "thrown"], f)]

\* ------------------------------------------------------------------------
\* middleware/index.ts: the global chain of the MiddlewareHandler
\* ------------------------------------------------------------------------

\* use() were it to put the middleware at the front of the chain
Push_Front(stack, middleware) == <<middleware>> \o stack

\* this.middlewares.push(middleware)
Push(stack, middleware) == Append(stack, middleware)

\* new MiddlewareHandler(): the framework middlewares are always used
MiddlewareHandlerNew ==
  /\ middlewares = Push(Push(Push(<<>>, "LoggerMiddleware"), "ShutdownMiddleware"),
                        "NoTrailingSlashMiddleware")
  /\ useLog = <<>>

\* server.use(middleware)
ServerUse(middleware) ==
  /\ Len(useLog) < MaxApp
  /\ middlewares' = Push(middlewares, middleware)
  /\ useLog' = Append(useLog, middleware)
  /\ UNCHANGED extraNext

\* ------------------------------------------------------------------------
\* server/index.ts: the lifecycle of the server.  A socket is "none" (not
\* connected yet), "open", "destroyed" (destroy() was called, its close
\* event is to come) or "closed" (its close event was delivered).
\* ------------------------------------------------------------------------

NoSocket ==
  [st |-> "none", endCalls |-> 0, destroyCalls |-> 0, timer |-> "off", cb |-> "none",
   resolved |-> FALSE]

NoShutdown == [pc |-> "idle", snapshot |-> {}, waited |-> FALSE]

\* the server, listening or not, before any connection
ServerState(l) ==
  /\ listening = l
  /\ isShuttingDown = FALSE
  /\ closeCalls = 0
  /\ sockets = {}
  /\ sock = [s \in SocketIds |-> NoSocket]
  /\ requests = {}
  /\ arrivedAfter = {}
  /\ sh = [k \in ShutdownIds |-> NoShutdown]
  /\ atSockets = [begun |-> FALSE, inflight |-> {}, grace |-> FALSE]
  /\ data = [calls |-> 0, cleared |-> FALSE,
             entries |-> [p \in Providers |-> IF p \in StartProviders THEN "created"
                                              ELSE "none"]]

\* new Server()
ServerNew == ServerState("no")

\* start(): the route table is started and the server listens
ServerStart ==
  /\ listening = "no"
  /\ RouterStart
  /\ listening' = "yes"
  /\ UNCHANGED <<chainVars, req, isShuttingDown, closeCalls, sockets, sock, requests,
                 arrivedAfter, sh, atSockets, data>>

\* the socket the next connection gets
FreeSocket ==
  CHOOSE s \in SocketIds : sock[s].st = "none" /\ \A q \in 1..(s - 1) : sock[q].st # "none"

\* the 'connection' event of the server
Connection ==
  /\ listening = "yes"
  /\ \E s \in SocketIds : sock[s].st = "none"
  /\ sockets' = sockets \cup {FreeSocket}
  /\ sock' = [sock EXCEPT ![FreeSocket].st = "open"]
  /\ UNCHANGED <<routerVars, chainVars, req, listening, isShuttingDown, closeCalls,
                 requests, arrivedAfter, sh, atSockets, data>>

\* the 'close' (or 'error') event of a socket: the peer closed it, or it
\* was destroyed
SocketCloses(s) ==
  /\ sock[s].st \in {"open", "destroyed"}
  /\ sock' = [sock EXCEPT ![s].st = "closed"]
  /\ sockets' = sockets \ {s}
  /\ UNCHANGED <<routerVars, chainVars, req, listening, isShuttingDown, closeCalls,
                 requests, arrivedAfter, sh, atSockets, data>>

\* the 'request' event of the server: requestHandler up to its await
RequestArrives(s, method, pathname) ==
  /\ routerStarted
  /\ sock[s].st = "open"
  /\ \E r \in ReqIds : req[r].st = "none"
  /\ req' = [req EXCEPT ![FreeId] = Received(FreeId, s, isShuttingDown, method, pathname)]
  /\ requests' = requests \cup {FreeId}
  /\ arrivedAfter' = IF isShuttingDown THEN arrivedAfter \cup {FreeId} ELSE arrivedAfter
  /\ UNCHANGED <<routerVars, chainVars, listening, isShuttingDown, closeCalls, sockets,
                 sock, sh, atSockets, data>>

\* cleanup() were it to put back a request the set no longer has
cleanup_Toggles(r) == IF r \in requests THEN requests \ {r} ELSE requests \cup {r}

\* cleanup(): this.requests.delete(req)
cleanup(r) == requests \ {r}

\* the 'finish' event of a response in flight: cleanup
ResFinish(r) ==
  /\ r \in requests
  /\ req[r].ended
  /\ sock[req[r].socket].st = "open"
  /\ req' = [req EXCEPT ![r].finish = TRUE]
  /\ requests' = cleanup(r)
  /\ UNCHANGED <<routerVars, chainVars, listening, isShuttingDown, closeCalls,
                 sockets, sock, arrivedAfter, sh, atSockets, data>>

\* the 'close' event of a response in flight, its socket being closed:
\* cleanup
ResClose(r) ==
  /\ r \in requests
  /\ sock[req[r].socket].st = "closed"
  /\ req' = [req EXCEPT ![r].close = TRUE]
  /\ requests' = cleanup(r)
  /\ UNCHANGED <<routerVars, chainVars, listening, isShuttingDown, closeCalls,
                 sockets, sock, arrivedAfter, sh, atSockets, data>>

\* the other event of a response one of whose events has run cleanup: the
\* 'close' event once its socket is closed, or the 'finish' event once the
\* response is ended; the listener of the event runs cleanup again
ResOtherEvent(r) ==
  /\ req[r].st # "none"
  /\ \/ /\ req[r].finish /\ ~req[r].close
        /\ sock[req[r].socket].st = "closed"
        /\ req' = [req EXCEPT ![r].close = TRUE]
     \/ /\ req[r].close /\ ~req[r].finish
        /\ req[r].ended
        /\ req' = [req EXCEPT ![r].finish = TRUE]
  /\ requests' = cleanup(r)
  /\ UNCHANGED <<routerVars, chainVars, listening, isShuttingDown, closeCalls,
                 sockets, sock, arrivedAfter, sh, atSockets, data>>

\* shutdown() were it to run its sequence at every call
AlreadyShuttingDown_Never == FALSE

\* if (this.isShuttingDown) return
AlreadyShuttingDown == isShuttingDown

\* the check of the drain wait were it to resolve whatever the requests
DrainOver_Always == TRUE

\* check(): this.requests.size === 0
DrainOver == requests = {}

\* the grace period were it never to elapse
GraceElapses_Never(k) == FALSE

\* setTimeout(resolve, requestGraceMs): the timer of the drain wait of call
\* k fires
GraceElapses(k) == sh[k].pc = "drain"

\* Promise.all(socketClosePromises) is resolved
AllResolved(sk, snapshot) == \A s \in snapshot : sk[s].resolved

\* the entries of the DataHandler: the providers registered and not cleared
Entries(d) == IF d.cleared THEN {} ELSE { p \in Providers : d.entries[p] # "none" }

\* DataHandler.use(name, provider), the provider creating its resource
DataUse(p) ==
  /\ p \notin Entries(data)
  /\ ~isShuttingDown
  /\ data' = [data EXCEPT !.entries[p] = "created"]
  /\ UNCHANGED <<routerVars, chainVars, req, listening, isShuttingDown, closeCalls,
                 sockets, sock, requests, arrivedAfter, sh, atSockets>>

\* destroy() were it to destroy the first entry only
DataDestroy_First(d) ==
  [d EXCEPT !.calls = @ + 1,
            !.entries = [p \in Providers |->
                           IF p \in Entries(d) /\ p \in DestroyableProviders /\ p = "db"
                           THEN "destroying" ELSE d.entries[p]]]

\* DataHandler.destroy() up to its await: destroy() of every entry whose
\* provider has the method
DataDestroy(d) ==
  [d EXCEPT !.calls = @ + 1,
            !.entries = [p \in Providers |->
                           IF p \in Entries(d) /\ p \in DestroyableProviders
                           THEN "destroying" ELSE d.entries[p]]]

\* shutdown() from 'Destroy any data providers' to its await
ProviderPhase(k, sh1) ==
  /\ data' = DataDestroy(data)
  /\ sh' = [sh1 EXCEPT ![k].pc = "providers"]

\* the promise made for a socket: the timer is set and socket.end is called
EndSocket(sk) ==
  [sk EXCEPT !.timer = "armed", !.endCalls = @ + 1, !.cb = "pending", !.resolved = FALSE]

\* shutdown() were it not to await the promises of the sockets
SocketPhase_NoAwait(k, sh1, grace) ==
  /\ atSockets' = [begun |-> TRUE, inflight |-> requests, grace |-> grace]
  /\ sock' = [s \in SocketIds |-> IF s \in sockets THEN EndSocket(sock[s]) ELSE sock[s]]
  /\ ProviderPhase(k, [sh1 EXCEPT ![k].snapshot = sockets])

\* shutdown() from 'Close remaining sockets' to its next await; grace tells
\* whether the drain wait ended by its timeout
SocketPhase(k, sh1, grace) ==
  /\ atSockets' = [begun |-> TRUE, inflight |-> requests, grace |-> grace]
  /\ IF sockets # {}
     THEN /\ sock' = [s \in SocketIds |-> IF s \in sockets THEN EndSocket(sock[s]) ELSE sock[s]]
          /\ sh' = [sh1 EXCEPT ![k].pc = "sockets", ![k].snapshot = sockets]
          /\ UNCHANGED data
     ELSE /\ UNCHANGED sock
          /\ ProviderPhase(k, sh1)

\* the call of shutdown() made next
NextShutdown ==
  CHOOSE k \in ShutdownIds : sh[k].pc = "idle" /\ \A j \in 1..(k - 1) : sh[j].pc # "idle"

\* shutdown() is called (by the handler of SIGINT or SIGTERM, or by the
\* application) and runs to its first await
ShutdownEnter(k) ==
  /\ listening # "no"
  /\ sh[k].pc = "idle"
  /\ k = NextShutdown
  /\ IF AlreadyShuttingDown
     THEN /\ sh' = [sh EXCEPT ![k].pc = "noop"]
          /\ UNCHANGED <<listening, isShuttingDown, closeCalls, sock, atSockets, data>>
     ELSE /\ isShuttingDown' = TRUE
          /\ closeCalls' = closeCalls + 1
          /\ listening' = "closed"
          /\ IF requests # {}
             THEN /\ sh' = [sh EXCEPT ![k].pc = "drain", ![k].waited = TRUE]
                  /\ UNCHANGED <<sock, atSockets, data>>
             ELSE SocketPhase(k, sh, FALSE)
  /\ UNCHANGED <<routerVars, chainVars, req, sockets, requests, arrivedAfter>>

\* the drain wait of call k finds no request in flight; shutdown() goes on
DrainCheck(k) ==
  /\ sh[k].pc = "drain"
  /\ DrainOver
  /\ SocketPhase(k, sh, FALSE)
  /\ UNCHANGED <<routerVars, chainVars, req, listening, isShuttingDown, closeCalls,
                 sockets, requests, arrivedAfter>>

\* the grace period of call k elapses; shutdown() goes on
GraceTimeout(k) ==
  /\ GraceElapses(k)
  /\ SocketPhase(k, sh, TRUE)
  /\ UNCHANGED <<routerVars, chainVars, req, listening, isShuttingDown, closeCalls,
                 sockets, requests, arrivedAfter>>

\* if (!socket.destroyed) socket.destroy()
Destroy(sk) ==
  IF sk.st = "open" THEN [sk EXCEPT !.st = "destroyed", !.destroyCalls = @ + 1] ELSE sk

\* a promise of the socket phase was resolved, the sockets now being sk:
\* shutdown() goes on once Promise.all is resolved
Resolved(sk) ==
  /\ sh' = [k \in ShutdownIds |->
              IF sh[k].pc = "sockets" /\ AllResolved(sk, sh[k].snapshot)
              THEN [sh[k] EXCEPT !.pc = "providers"] ELSE sh[k]]
  /\ data' = IF \E k \in ShutdownIds : sh[k].pc = "sockets" /\ AllResolved(sk, sh[k].snapshot)
             THEN DataDestroy(data) ELSE data

\* the callback of socket.end() is called
EndCallback(s) ==
  /\ sock[s].cb = "pending"
  /\ sock' = [sock EXCEPT ![s] = [Destroy(@) EXCEPT !.cb = "called", !.resolved = TRUE,
                                    !.timer = IF @ = "armed" THEN "cleared" ELSE @]]
  /\ Resolved(sock')
  /\ UNCHANGED <<routerVars, chainVars, req, listening, isShuttingDown, closeCalls,
                 sockets, requests, arrivedAfter, atSockets>>

\* the close timeout of a socket fires
SocketTimeout(s) ==
  /\ sock[s].timer = "armed"
  /\ sock' = [sock EXCEPT ![s] = [Destroy(@) EXCEPT !.timer = "fired", !.resolved = TRUE]]
  /\ Resolved(sock')
  /\ UNCHANGED <<routerVars, chainVars, req, listening, isShuttingDown, closeCalls,
                 sockets, requests, arrivedAfter, atSockets>>

\* provider.destroy() of an entry settles: fulfilled, or rejected and logged
ProviderSettles(p, fulfilled) ==
  /\ data.entries[p] = "destroying"
  /\ data' = [data EXCEPT !.entries[p] = IF fulfilled THEN "destroyed" ELSE "failed"]
  /\ UNCHANGED <<routerVars, chainVars, req, listening, isShuttingDown, closeCalls,
                 sockets, sock, requests, arrivedAfter, sh, atSockets>>

\* Promise.allSettled of the entries
AllSettled == \A p \in Providers : data.entries[p] # "destroying"

\* DataHandler.destroy() after its await, and the end of shutdown()
ShutdownCompletes(k) ==
  /\ sh[k].pc = "providers"
  /\ AllSettled
  /\ data' = [data EXCEPT !.cleared = TRUE]
  /\ sh' = [sh EXCEPT ![k].pc = "done"]
  /\ UNCHANGED <<routerVars, chainVars, req, listening, isShuttingDown, closeCalls,
                 sockets, sock, requests, arrivedAfter, atSockets>>

\* ------------------------------------------------------------------------
\* SpecRouter: routes and routers are registered, the route table is
\* started, and requests are routed
\* ------------------------------------------------------------------------

InitRouter ==
  /\ map = <<>>
  /\ routerStarted = FALSE
  /\ regOrder = <<>>
  /\ regCount = 0
  /\ extraNext = 0
  /\ MiddlewareHandlerNew
  /\ req = [r \in ReqIds |-> NoRequest]
  /\ ServerNew

\* the application registers its routes and routers, then starts the server
RouterRegisters ==
  /\ \/ ~routerStarted /\ \E route \in Routes : ServerRoute(route)
     \/ ~routerStarted /\ \E router \in Routers : ServerRouter(router)
     \/ RouterStart
  /\ UNCHANGED <<chainVars, req, serverVars>>

\* a request arrives once the server listens; the requests are handled one
\* after the other
RouterReceives ==
  /\ routerStarted
  /\ req[1].st \in {"none", "handled"}
  /\ \E method \in ReqMethods, pathname \in ReqPaths :
       req' = [req EXCEPT ![1] = Received(1, 0, FALSE, method, pathname)]
  /\ UNCHANGED <<routerVars, chainVars, serverVars>>

RouterRequestStep == RequestStep /\ UNCHANGED <<routerVars, chainVars, serverVars>>

NextRouter == RouterRegisters \/ RouterReceives \/ RouterRequestStep

vars == <<routerVars, chainVars, req, serverVars>>

SpecRouter == InitRouter /\ [][NextRouter]_vars

\* ------------------------------------------------------------------------
\* Properties of the route table (SpecRouter)
\* ------------------------------------------------------------------------

\* a route path is a catch-all: a mount prefix followed by /{path:.*}
IsCatchAll(key) ==
  /\ Len(key) >= Len(CATCH_ALL_ROUTE_PATH)
  /\ SubSeq(key, Len(key) - Len(CATCH_ALL_ROUTE_PATH) + 1, Len(key)) = CATCH_ALL_ROUTE_PATH

\* the entry of the route table accepts the path
Accepts(i, pathname) == RegExpExec(map[i].regex, pathname).matched

\* the invocations of RouterHandler.execute of request r
Executes(r) == { f \in 1..Len(req[r].frames) : req[r].frames[f].kind = "execute" }

\* the invocations of the handler closure of request r
Handlers(r) == { f \in 1..Len(req[r].frames) : req[r].frames[f].kind = "handler" }

\* the invocations of route handlers of request r
RouteCalls(r) == { f \in 1..Len(req[r].frames) : req[r].frames[f].kind = "route" }

\* C6: after start(), whatever the order of the registrations, a request
\* path accepted by some non-catch-all pattern is never dispatched to a
\* catch-all entry.
C6_CatchAllNeverWins ==
  \A r \in ReqIds : \A f \in Executes(r) :
    (routerStarted /\ IsCatchAll(req[r].frames[f].key))
      => ~ \E i \in 1..Len(map) : ~IsCatchAll(map[i].key) /\ Accepts(i, req[r].pathname)

\* C7: execute dispatches to the first entry, in the order of the route
\* table, whose matcher accepts the path; of two non-catch-all patterns
\* accepting the path the one registered first handles the request; a path
\* no entry accepts gets 404 and is not dispatched.
C7_FirstMatchWins ==
  \A r \in ReqIds : \A f \in Executes(r) :
    LET key == req[r].frames[f].key
        pathname == req[r].pathname
    IN /\ key # <<>> =>
            /\ MapIndex(map, key) # 0
            /\ Accepts(MapIndex(map, key), pathname)
            /\ \A j \in 1..(MapIndex(map, key) - 1) : ~Accepts(j, pathname)
       /\ (key # <<>> /\ ~IsCatchAll(key)) =>
            \A j \in 1..Len(map) :
              (~IsCatchAll(map[j].key) /\ Accepts(j, pathname))
                => IndexOf(regOrder, key) <= IndexOf(regOrder, map[j].key)
       /\ key = <<>> =>
            /\ \A j \in 1..Len(map) : ~Accepts(j, pathname)
            /\ req[r].status = 404
            /\ Handlers(r) = {} /\ RouteCalls(r) = {}

\* C7 witness: a request was dispatched to the first registered of two
\* non-catch-all entries accepting its path, and another got 404 for a
\* path no entry accepts
C7_Witness ==
  \E r \in ReqIds : \E f \in Executes(r) :
    /\ req[r].frames[f].key # <<>>
    /\ ~IsCatchAll(req[r].frames[f].key)
    /\ \E j \in 1..Len(map) :
         /\ map[j].key # req[r].frames[f].key
         /\ ~IsCatchAll(map[j].key)
         /\ Accepts(j, req[r].pathname)

\* the position of a method name in the alphabet of the method names
MethodRank(m) ==
  CASE m = "*" -> 0 [] m = "DELETE" -> 1 [] m = "GET" -> 2 [] m = "PATCH" -> 3
    [] m = "POST" -> 4 [] m = "PUT" -> 5 [] OTHER -> 6

\* value lists exactly the methods, alphabetically, joined by ', '
IsSortedList(value, methods) ==
  /\ Len(value) = 2 * Cardinality(methods) - 1
  /\ \A i \in 1..Len(value) :
       IF i % 2 = 0 THEN value[i] = ", " ELSE value[i] \in methods
  /\ \A i, j \in 1..Len(value) :
       (i % 2 = 1 /\ j % 2 = 1 /\ i < j) => MethodRank(value[i]) < MethodRank(value[j])

\* C8: in the matched entry the route is the binding of the request's
\* method, else the '*' binding; if there is neither, the response is 405
\* with an allow header listing the entry's methods alphabetically, joined
\* by ', ', and no route handler is invoked.
C8_MethodResolution ==
  \A r \in ReqIds : \A f \in Handlers(r) :
    LET methods == map[MapIndex(map, req[r].frames[f].key)].methods
        bound   == { methods[i].m : i \in 1..Len(methods) }
        RouteOf(m) == (CHOOSE b \in Range(methods) : b.m = m).route
    IN /\ req[r].method \in bound => req[r].route = RouteOf(req[r].method)
       /\ (req[r].method \notin bound /\ "*" \in bound) => req[r].route = RouteOf("*")
       /\ (req[r].method \notin bound /\ "*" \notin bound) =>
            /\ req[r].status = 405
            /\ IsSortedList(req[r].allow, bound)
            /\ req[r].route = NoRoute
            /\ RouteCalls(r) = {}

\* C8 witness: a DELETE request to the entry of a route declaring POST and
\* GET was answered 405 with allow: GET, POST
C8_Witness ==
  \E r \in ReqIds :
    /\ Handlers(r) # {}
    /\ req[r].method = "DELETE"
    /\ req[r].status = 405
    /\ req[r].allow = <<"GET", ", ", "POST">>

\* ------------------------------------------------------------------------
\* SpecChain: a started server whose table has a route with a middleware
\* and the route of a router with middlewares; the application registers
\* global middlewares, requests are received, and an interceptor may call
\* next() again
\* ------------------------------------------------------------------------

ChainMap == start(use(addRoute(<<>>, RouteX, NoRouter).map, RouterNested).map)

ChainPaths ==
  { <<"/", "n", "/", "x">>, <<"/", "b">>, <<"/", "n", "/">>, <<"/", "b", "/", "c">> }
ChainMethods == {"GET", "POST"}

InitChain ==
  /\ map = ChainMap
  /\ routerStarted = TRUE
  /\ regOrder = MapKeys(ChainMap)
  /\ regCount = 2
  /\ extraNext = MaxExtraNext
  /\ MiddlewareHandlerNew
  /\ req = [r \in ReqIds |-> NoRequest]
  /\ ServerState("yes")

\* the application registers its next global middleware
ChainUses ==
  /\ \E i \in 1..Len(AppMiddlewares) : i = Len(useLog) + 1 /\ ServerUse(AppMiddlewares[i])
  /\ UNCHANGED <<routerVars, req, serverVars>>

\* a request arrives; the requests are handled one after the other
ChainReceives ==
  /\ req[1].st \in {"none", "handled"}
  /\ \E method \in ChainMethods, pathname \in ChainPaths :
       req' = [req EXCEPT ![1] = Received(1, 0, FALSE, method, pathname)]
  /\ UNCHANGED <<routerVars, chainVars, serverVars>>

ChainRequestStep == RequestStep /\ UNCHANGED <<routerVars, chainVars, serverVars>>

NextChain == ChainUses \/ ChainReceives \/ ChainRequestStep

SpecChain == InitChain /\ [][NextChain]_vars

\* ------------------------------------------------------------------------
\* Properties of the middleware chain (SpecChain)
\* ------------------------------------------------------------------------

\* the invocations of the interceptors of chain execution e of request r
MwFrames(r, e) ==
  { f \in 1..Len(req[r].frames) :
      req[r].frames[f].kind = "middleware" /\ req[r].frames[f].exec = e }

\* the invocation of request r, in chain execution e, of the interceptor named
Invoked(r, e, name) == { f \in MwFrames(r, e) : req[r].frames[f].name = name }

\* C9: the interceptors of a chain are invoked strictly in the order of
\* their registration (the n-th invocation of a chain execution is that of
\* the n-th registered interceptor), the global chain is the built-in
\* interceptors followed by the application's in the order of the use()
\* calls, and an application interceptor of the global chain is invoked
\* only after the logger, the shutdown and the trailing-slash interceptors,
\* invoked in this order.
C9_RegistrationOrder ==
  /\ middlewares = <<"LoggerMiddleware", "ShutdownMiddleware", "NoTrailingSlashMiddleware">>
                   \o useLog
  /\ \A r \in ReqIds : \A e \in 1..Len(req[r].execs) : \A f \in MwFrames(r, e) :
       /\ req[r].frames[f].pos = Cardinality({ g \in MwFrames(r, e) : g < f }) + 1
       /\ req[r].frames[f].name = Stack(req[r], e)[req[r].frames[f].pos]
       /\ (req[r].execs[e].lvl = "global" /\ req[r].frames[f].name \notin BuiltIns) =>
            \E a \in Invoked(r, e, "LoggerMiddleware"),
               b \in Invoked(r, e, "ShutdownMiddleware"),
               c \in Invoked(r, e, "NoTrailingSlashMiddleware") : a < b /\ b < c /\ c < f

\* C9 witness: a request went through two application interceptors of the
\* global chain, the second interceptor of a router and that of a route
C9_Witness ==
  \E r \in ReqIds :
    /\ Invoked(r, 1, "g1") # {} /\ Invoked(r, 1, "g2") # {}
    /\ \E e \in 1..Len(req[r].execs) : Invoked(r, e, "r2") # {}
    /\ \E e \in 1..Len(req[r].execs) : Invoked(r, e, "t1") # {}

\* frame f was invoked, directly or not, by an interceptor of chain execution e
RECURSIVE CalledFrom(_, _, _)
CalledFrom(c, f, e) ==
  /\ f # 0
  /\ \/ c.frames[f].kind = "middleware" /\ c.frames[f].exec = e
     \/ CalledFrom(c, c.frames[f].by, e)

\* chain execution e2 is nested inside chain execution e
Nested(c, e, e2) == e2 # e /\ CalledFrom(c, c.execs[e2].by, e)

\* C10: once an interceptor has returned without calling next(), its chain
\* has invoked no later interceptor and not its final handler, no chain is
\* nested inside it, and no route handler was invoked for the request.
C10_ShortCircuit ==
  \A r \in ReqIds : \A f \in 1..Len(req[r].frames) :
    LET c == req[r]
        e == c.frames[f].exec
    IN (c.frames[f].kind = "middleware" /\ c.frames[f].st = "returned"
        /\ c.frames[f].calls = 0)
       => /\ \A g \in MwFrames(r, e) : c.frames[g].pos <= c.frames[f].pos
          /\ c.execs[e].hcalls = 0
          /\ \A e2 \in 1..Len(c.execs) : ~Nested(c, e, e2)
          /\ RouteCalls(r) = {}

\* every interceptor of chain execution e was invoked and has called next()
AllCalledNext(c, e) ==
  \A p \in 1..Len(Stack(c, e)) :
    \E f \in 1..Len(c.frames) :
      /\ c.frames[f].kind = "middleware" /\ c.frames[f].exec = e
      /\ c.frames[f].pos = p /\ c.frames[f].calls > 0

\* the chain execution whose final handler invoked frame f, 0 if f was not
\* invoked by a chain
ChainOf(c, f) ==
  IF c.frames[f].by # 0 /\ c.frames[c.frames[f].by].kind = "middleware"
  THEN c.frames[c.frames[f].by].exec ELSE 0

\* C11: the chains of a request are nested global -> router -> route ->
\* handler: whenever the router is executed, every global interceptor has
\* called next(); whenever the handler closure of a router with middleware
\* is invoked, every interceptor of the router-scoped chain has called
\* next(); whenever the route handler of a route with middleware is
\* invoked, every interceptor of the route-scoped chain has called next().
C11_Nesting ==
  [][\A r \in ReqIds : \A f \in (Len(req[r].frames) + 1)..Len(req'[r].frames) :
       LET c == req'[r]
           e == ChainOf(c, f)
       IN /\ c.frames[f].kind = "execute" =>
               (e # 0 /\ c.execs[e].lvl = "global" /\ AllCalledNext(c, e))
          /\ (c.frames[f].kind = "handler" /\ RouterMiddleware(c.router) # <<>>) =>
               (e # 0 /\ c.execs[e].lvl = "router" /\ AllCalledNext(c, e))
          /\ (c.frames[f].kind = "route" /\ c.route.middleware # <<>>) =>
               (e # 0 /\ c.execs[e].lvl = "route" /\ AllCalledNext(c, e))]_vars

\* ------------------------------------------------------------------------
\* SpecServer: a server whose application has registered a global
\* middleware, a route and its data providers is started, accepts
\* connections, receives requests and is shut down
\* ------------------------------------------------------------------------

ServerMap == addRoute(<<>>, RouteA, NoRouter).map

ServerPaths == { <<"/", "a">> }
ServerMethods == {"GET"}

InitServer ==
  /\ map = ServerMap
  /\ routerStarted = FALSE
  /\ regOrder = MapKeys(ServerMap)
  /\ regCount = 1
  /\ extraNext = 0
  /\ middlewares = Push(Push(Push(Push(<<>>, "LoggerMiddleware"), "ShutdownMiddleware"),
                             "NoTrailingSlashMiddleware"), "g1")
  /\ useLog = <<"g1">>
  /\ req = [r \in ReqIds |-> NoRequest]
  /\ ServerNew

\* the steps of the requests; the stages of the handler closure succeed and
\* the route handler ends the response
ServerRequestStep ==
  /\ \E r \in ReqIds :
       \/ \E f \in 1..Len(req[r].frames) :
            \/ MiddlewareCallsNext(r, f)
            \/ MiddlewareReturns(r, f)
            \/ HandlerStages(r, f, 0)
            \/ RouteHandlerReturns(r, f, TRUE)
       \/ Finally(r)
  /\ UNCHANGED <<routerVars, chainVars, serverVars>>

NextServer ==
  \/ ServerStart
  \/ Connection
  \/ \E s \in SocketIds : SocketCloses(s)
  \/ \E s \in SocketIds, method \in ServerMethods, pathname \in ServerPaths :
       RequestArrives(s, method, pathname)
  \/ ServerRequestStep
  \/ \E r \in ReqIds : ResFinish(r)
  \/ \E r \in ReqIds : ResClose(r)
  \/ \E k \in ShutdownIds : ShutdownEnter(k)
  \/ \E k \in ShutdownIds : DrainCheck(k)
  \/ \E k \in ShutdownIds : GraceTimeout(k)
  \/ \E s \in SocketIds : EndCallback(s)
  \/ \E s \in SocketIds : SocketTimeout(s)
  \/ \E p \in Providers, fulfilled \in BOOLEAN : ProviderSettles(p, fulfilled)
  \/ \E k \in ShutdownIds : ShutdownCompletes(k)

SpecServer == InitServer /\ [][NextServer]_vars

\* the timers of shutdown() fire, and shutdown() goes on once the promise
\* it awaits is settled
SpecServerFair ==
  /\ SpecServer
  /\ \A k \in ShutdownIds : WF_vars(GraceTimeout(k))
  /\ \A s \in SocketIds : WF_vars(SocketTimeout(s))
  /\ \A k \in ShutdownIds : WF_vars(ShutdownCompletes(k))

\* ------------------------------------------------------------------------
\* The requests in flight (SpecInFlight): the server is started, connections
\* open and close, requests arrive and are handled, and each response emits
\* its 'finish' and 'close' events
\* ------------------------------------------------------------------------

NextInFlight ==
  \/ ServerStart
  \/ Connection
  \/ \E s \in SocketIds : SocketCloses(s)
  \/ \E s \in SocketIds, method \in ServerMethods, pathname \in ServerPaths :
       RequestArrives(s, method, pathname)
  \/ ServerRequestStep
  \/ \E r \in ReqIds : ResFinish(r)
  \/ \E r \in ReqIds : ResClose(r)
  \/ \E r \in ReqIds : ResOtherEvent(r)

SpecInFlight == InitServer /\ [][NextInFlight]_vars

\* ------------------------------------------------------------------------
\* Properties of the shutdown (SpecServer)
\* ------------------------------------------------------------------------

\* the calls of shutdown() that ran (or run) the teardown sequence
Sequences == { k \in ShutdownIds : sh[k].pc \notin {"idle", "noop"} }

\* the sockets the socket phase made promises for
Snapshot == UNION { sh[k].snapshot : k \in ShutdownIds }

\* C1: however often shutdown() is called, one teardown sequence runs: the
\* listening socket is closed once, every socket is ended once and
\* destroyed at most once by shutdown(), dataHandler.destroy() is called
\* once; a call made with the flag set changes nothing; the flag, once set,
\* stays set.
C1_OneTeardown ==
  /\ [](/\ Cardinality(Sequences) <= 1
        /\ closeCalls <= 1
        /\ data.calls <= 1
        /\ \A s \in SocketIds : sock[s].endCalls <= 1 /\ sock[s].destroyCalls <= 1
        /\ (Sequences # {}) => (isShuttingDown /\ closeCalls = 1))
  /\ [][isShuttingDown => isShuttingDown']_vars
  /\ [][\A k \in ShutdownIds :
          (isShuttingDown /\ sh[k].pc = "idle" /\ sh'[k].pc # "idle")
            => /\ sh'[k].pc = "noop"
               /\ UNCHANGED <<listening, isShuttingDown, closeCalls, sockets, sock,
                              requests, atSockets, data>>]_vars

\* C1 witness: shutdown() was called again while the first call was waiting
\* for the requests to drain or for the sockets to close, and did nothing
C1_Witness ==
  \E k, j \in ShutdownIds :
    /\ sh[k].pc \in {"drain", "sockets"}
    /\ sh[j].pc = "noop"
    /\ closeCalls = 1

\* the rank of the phases of shutdown()
PhaseRank(pc) ==
  CASE pc = "idle" -> 0 [] pc = "noop" -> 0 [] pc = "drain" -> 1 [] pc = "sockets" -> 2
    [] pc = "providers" -> 3 [] pc = "done" -> 4

\* C2: the phases of a shutdown() follow one another in the order flag,
\* stop listening, drain wait, sockets, providers, completion: shutdown()
\* only moves forward through them; the server is closed only with the flag
\* set; a socket is ended or destroyed by shutdown() only once the drain
\* wait is over; destroy() of the data handler is called only once every
\* promise of the socket phase is resolved, its socket destroyed or closed;
\* shutdown() completes only once the providers' destroy() has settled.
C2_PhaseOrder ==
  /\ [](/\ closeCalls > 0 => isShuttingDown
        /\ \A k \in ShutdownIds : sh[k].pc = "drain" =>
             /\ ~atSockets.begun
             /\ \A s \in SocketIds : sock[s].endCalls = 0 /\ sock[s].destroyCalls = 0
             /\ data.calls = 0
        /\ (\E s \in SocketIds : sock[s].endCalls > 0 \/ sock[s].destroyCalls > 0) =>
             /\ atSockets.begun
             /\ \A k \in Sequences : PhaseRank(sh[k].pc) >= 2
        /\ \A k \in ShutdownIds : sh[k].pc = "sockets" => data.calls = 0
        /\ data.calls > 0 =>
             /\ \A k \in Sequences : PhaseRank(sh[k].pc) >= 3
             /\ \A s \in Snapshot : sock[s].resolved /\ sock[s].st \in {"destroyed", "closed"}
        /\ \A k \in ShutdownIds : sh[k].pc = "done" => (data.calls = 1 /\ AllSettled))
  /\ [][\A k \in ShutdownIds : PhaseRank(sh'[k].pc) >= PhaseRank(sh[k].pc)]_vars

\* C2 witness: a shutdown() that waited for the requests and ended sockets
\* has destroyed a provider and completed
C2_Witness ==
  \E k \in ShutdownIds :
    /\ sh[k].pc = "done"
    /\ sh[k].waited
    /\ sh[k].snapshot # {}
    /\ data.entries["db"] = "destroyed"

\* shutdown() ends or destroys a socket in this step
EndsSocket ==
  \E s \in SocketIds : sock'[s].endCalls > sock[s].endCalls

DestroysSocket ==
  \E s \in SocketIds : sock'[s].destroyCalls > sock[s].destroyCalls

\* C3 as stated: whenever shutdown() ends or destroys a socket, no request
\* is in flight.
C3_NoRequestInFlight ==
  [][(EndsSocket \/ DestroysSocket) => requests = {}]_vars

\* C3 as the code has it: shutdown() ends the sockets when the drain wait
\* is over, and then no request is in flight unless the grace period has
\* elapsed.
C3_DrainedOrGraceElapsed ==
  /\ [][EndsSocket => (requests = {} \/ atSockets'.grace)]_vars
  /\ [](atSockets.begun => (atSockets.inflight = {} \/ atSockets.grace))
  /\ []((\E s \in SocketIds : sock[s].endCalls > 0) => atSockets.begun)

\* C3 witness: shutdown() waited for a request, the request finished within
\* the grace period, and the sockets were ended with no request in flight
C3_Witness ==
  \E k \in ShutdownIds :
    /\ sh[k].waited
    /\ sh[k].pc = "sockets"
    /\ atSockets.begun /\ ~atSockets.grace /\ atSockets.inflight = {}
    /\ \E s \in SocketIds : sock[s].endCalls = 1

\* C4: shutdown() does not wait for ever for requests or sockets: once the
\* flag is set, destroy() of the data handler is eventually called, even if
\* requests never finish and sockets never close; by then every socket of
\* the socket phase is destroyed or closed; and once the providers'
\* destroy() has settled, shutdown() completes.
C4_ShutdownTerminates ==
  /\ isShuttingDown ~> (data.calls = 1)
  /\ [](data.calls > 0 => \A s \in Snapshot : sock[s].st \in {"destroyed", "closed"})
  /\ ((\E k \in ShutdownIds : sh[k].pc = "providers") /\ AllSettled)
       ~> (\E k \in ShutdownIds : sh[k].pc = "done")

\* C4 witness: shutdown() completed although a request was still in flight
\* when the grace period elapsed and a socket had to be destroyed by its
\* close timeout
C4_Witness ==
  \E k \in ShutdownIds :
    /\ sh[k].pc = "done"
    /\ atSockets.grace /\ atSockets.inflight # {}
    /\ \E s \in SocketIds : sock[s].timer = "fired" /\ sock[s].destroyCalls = 1

\* C5: a request that arrived with the shutting-down flag set is answered
\* by the shutdown middleware with 503 and connection: close; the only
\* interceptors invoked for it are the logger and the shutdown middleware,
\* and neither the route table nor a route handler is reached.
C5_RejectedDuringShutdown ==
  \A r \in arrivedAfter :
    /\ req[r].status = 503
    /\ req[r].connection = "close"
    /\ \A f \in 1..Len(req[r].frames) :
         /\ req[r].frames[f].kind = "middleware"
         /\ req[r].frames[f].name \in {"LoggerMiddleware", "ShutdownMiddleware"}
    /\ Invoked(r, 1, "ShutdownMiddleware") # {}
    /\ Executes(r) = {} /\ Handlers(r) = {} /\ RouteCalls(r) = {}

\* C5 witness: a request arrived on a kept-alive socket after shutdown()
\* had set the flag, and was handled
C5_Witness ==
  \E r \in arrivedAfter :
    /\ isShuttingDown
    /\ req[r].st = "handled"
    /\ \E q \in ReqIds : q # r /\ req[q].st # "none" /\ req[q].socket = req[r].socket

\* ------------------------------------------------------------------------
\* SpecPipeline: a started server with four routes (a size budget;
\* strategies, a scope and a route middleware; optional authentication;
\* multipart and text payloads with validation).  A request arrives with a
\* credential, a content type and a body, and goes through the stages of
\* the handler closure; interceptors, strategies and route
\* handlers may throw.
\* ------------------------------------------------------------------------

RouteOpen ==
  [Route(<<"/", "o">>, <<"GET", "POST", "PATCH", "PUT">>, FALSE, <<>>, "hO")
     EXCEPT !.cache = TRUE, !.payload.maxBytes = 2]

RouteSecure ==
  [Route(<<"/", "s">>, <<"GET", "POST">>, FALSE, <<"t1">>, "hS")
     EXCEPT !.security = TRUE,
            !.auth = [strategy |-> <<"s0", "s1", "s2">>, isOptional |-> FALSE,
                      scope |-> << <<"a">>, <<"!", "b">> >>]]

RouteOptional ==
  [Route(<<"/", "p">>, <<"GET">>, FALSE, <<>>, "hP")
     EXCEPT !.auth = [strategy |-> <<"s2", "s1">>, isOptional |-> TRUE, scope |-> <<>>]]

RouteForm ==
  [Route(<<"/", "f">>, <<"POST", "PATCH", "DELETE">>, FALSE, <<>>, "hF")
     EXCEPT !.validation = TRUE,
            !.payload = [allowed |-> <<MultipartFormData, TextPlain>>,
                         defaultContentType |-> TextPlain, maxBytes |-> 2,
                         multipart |-> TRUE]]

PipelineMap ==
  start(addRoute(addRoute(addRoute(addRoute(<<>>, RouteOpen, NoRouter).map,
                                            RouteSecure, NoRouter).map,
                                   RouteOptional, NoRouter).map,
                          RouteForm, NoRouter).map)

PipelinePaths == { <<"/", "o">>, <<"/", "s">>, <<"/", "p">>, <<"/", "f">> }
PipelineMethods == {"GET", "POST", "PATCH", "DELETE"}

\* the content-type headers of the requests: none, APPLICATION/JSON,
\* application/x-www-form-urlencoded,
\* multipart/form-data with and without a boundary, text/plain
PipelineTypes ==
  { <<>>, <<"A", "/", "J">>, FormUrlEncoded,
    <<"m", "/", "f", ";", "b">>, MultipartFormData, TextPlain }

\* the chunks of the bodies: digits, or a character that is not JSON
Chunks == { [i \in 1..n |-> "1"] : n \in 1..MaxChunkLen } \cup { <<"x">> }

\* the fields of the multipart bodies
FieldNames == {"a", "b"}
FieldValues == { <<>>, <<"x">>, <<"y">> }

InitPipeline ==
  /\ map = PipelineMap
  /\ routerStarted = TRUE
  /\ regOrder = MapKeys(PipelineMap)
  /\ regCount = 4
  /\ extraNext = 0
  /\ MiddlewareHandlerNew
  /\ req = [r \in ReqIds |-> NoRequest]
  /\ ServerState("yes")

\* a request arrives
PipelineReceives ==
  /\ req[1].st = "none"
  /\ \E method \in PipelineMethods, pathname \in PipelinePaths,
        type \in PipelineTypes, credential \in Credentials :
       req' = [req EXCEPT ![1] =
                 execute([NoRequest EXCEPT !.st = "active", !.method = method,
                                           !.pathname = pathname, !.type = type,
                                           !.credential = credential],
                         "global", <<>>, 0, <<>>, <<>>)]
  /\ UNCHANGED <<routerVars, chainVars, serverVars>>

\* the steps of a request
PipelineRequestStep ==
  /\ \E f \in 1..Len(req[1].frames) :
       \/ MiddlewareCallsNext(1, f)
       \/ MiddlewareReturns(1, f)
       \/ MiddlewareThrows(1, f)
       \/ HandlerBegins(1, f)
       \/ AuthSettles(1, f)
       \/ AuthRejects(1, f)
       \/ \E valid \in BOOLEAN : ParseResolved(1, f, valid)
       \/ \E ends \in BOOLEAN : RouteHandlerReturns(1, f, ends)
       \/ \E ends \in BOOLEAN : RouteHandlerThrows(1, f, ends)
       \/ \E code \in {200, 404} : RouteHandlerStreamFails(1, f, code)
  /\ UNCHANGED <<routerVars, chainVars, serverVars>>

\* the events of the request stream and of busboy
PipelineStreamStep ==
  /\ \/ \E chunk \in Chunks : StreamData(1, chunk)
     \/ StreamEnd(1)
     \/ \E name \in FieldNames, value \in FieldValues : BusboyField(1, name, value)
     \/ BusboyFinish(1)
  /\ UNCHANGED <<routerVars, chainVars, serverVars>>

PipelineFinally == Finally(1) /\ UNCHANGED <<routerVars, chainVars, serverVars>>

NextPipeline ==
  PipelineReceives \/ PipelineRequestStep \/ PipelineStreamStep \/ PipelineFinally

SpecPipeline == InitPipeline /\ [][NextPipeline]_vars

\* ------------------------------------------------------------------------
\* SpecAbort: the pipeline of SpecPipeline with request streams that may be
\* destroyed before the end of the body.  The steps of the program are
\* fair: a continuation that can run does run, and the finally block of
\* requestHandler runs once the chain is settled.  The request stream is
\* fair as a whole: it does not stay silent for ever, it ends or closes.
\* ------------------------------------------------------------------------

\* a request arrives with a method that carries a body
AbortReceives ==
  /\ req[1].st = "none"
  /\ \E method \in {"POST", "PATCH"}, pathname \in PipelinePaths,
        type \in PipelineTypes, credential \in {"none", "k1"} :
       req' = [req EXCEPT ![1] =
                 execute([NoRequest EXCEPT !.st = "active", !.method = method,
                                           !.pathname = pathname, !.type = type,
                                           !.credential = credential],
                         "global", <<>>, 0, <<>>, <<>>)]
  /\ UNCHANGED <<routerVars, chainVars, serverVars>>

AbortStreamCloses == StreamCloses(1) /\ UNCHANGED <<routerVars, chainVars, serverVars>>

NextAbort ==
  \/ AbortReceives
  \/ PipelineRequestStep
  \/ PipelineStreamStep
  \/ AbortStreamCloses
  \/ PipelineFinally

SpecAbort ==
  /\ InitPipeline /\ [][NextAbort]_vars
  /\ WF_vars(PipelineRequestStep)
  /\ WF_vars(PipelineFinally)
  /\ WF_vars(PipelineStreamStep \/ AbortStreamCloses)

\* ------------------------------------------------------------------------
\* SpecScope: a started server with routes that declare a scope: one
\* without a strategy, the others with optional authentication and scopes
\* written with and without the prefixes + and !.  A request arrives with
\* a credential and goes through the stages of the handler closure.
\* ------------------------------------------------------------------------

\* a route that declares a scope and no strategy
RouteScopeOnly ==
  [Route(<<"/", "n">>, <<"GET", "POST">>, FALSE, <<>>, "hN")
     EXCEPT !.auth = [strategy |-> <<>>, isOptional |-> FALSE, scope |-> << <<"a">> >>]]

\* a route with optional authentication and the scope
RouteWithScope(path, strategy, scope) ==
  [Route(path, <<"GET">>, FALSE, <<>>, "hQ")
     EXCEPT !.auth = [strategy |-> strategy, isOptional |-> TRUE, scope |-> scope]]

ScopeRoutes ==
  << RouteScopeOnly,
     RouteWithScope(<<"/", "1">>, <<"s1", "s2">>, << <<"+", "a">>, <<"!", "b">> >>),
     RouteWithScope(<<"/", "2">>, <<"s2", "s1">>, << <<"a">>, <<"b">> >>),
     RouteWithScope(<<"/", "3">>, <<"s2", "s1">>, << <<"+", "a">>, <<"c">>, <<"b">> >>),
     RouteWithScope(<<"/", "4">>, <<"s1", "s2">>, << <<"!", "b">> >>),
     RouteWithScope(<<"/", "5">>, <<"s2">>, << <<"+", "a">>, <<"+", "b">> >>) >>

ScopeMap == start(AddRoutes(<<>>, ScopeRoutes, 1, <<>>, NoRouter).map)

ScopePaths == { ScopeRoutes[i].path : i \in 1..Len(ScopeRoutes) }

InitScope ==
  /\ map = ScopeMap
  /\ routerStarted = TRUE
  /\ regOrder = MapKeys(ScopeMap)
  /\ regCount = Len(ScopeRoutes)
  /\ extraNext = 0
  /\ MiddlewareHandlerNew
  /\ req = [r \in ReqIds |-> NoRequest]
  /\ ServerState("yes")

\* a request arrives
ScopeReceives ==
  /\ req[1].st = "none"
  /\ \E method \in {"GET", "POST"}, pathname \in ScopePaths,
        type \in {<<>>, TextPlain}, credential \in Credentials :
       req' = [req EXCEPT ![1] =
                 execute([NoRequest EXCEPT !.st = "active", !.method = method,
                                           !.pathname = pathname, !.type = type,
                                           !.credential = credential],
                         "global", <<>>, 0, <<>>, <<>>)]
  /\ UNCHANGED <<routerVars, chainVars, serverVars>>

NextScope ==
  ScopeReceives \/ PipelineRequestStep \/ PipelineStreamStep \/ PipelineFinally

SpecScope == InitScope /\ [][NextScope]_vars

\* ------------------------------------------------------------------------
\* SpecMultipart: the started server of SpecPipeline receives a request
\* with a multipart/form-data body for a route that declares the limits of
\* the multipart body (/f) or for one that does not (/o); busboy emits
\* fields, truncated or not, files, limits and finish.
\* ------------------------------------------------------------------------

MultipartPaths == { <<"/", "o">>, <<"/", "f">> }
MultipartType == <<"m", "/", "f", ";", "b">>
PartNames == {"a"}
PartValues == { <<>>, <<"x">> }
FileChunks == { <<"1">>, <<"1", "1", "1">> }
FieldInfos == [valueTruncated : BOOLEAN, nameTruncated : BOOLEAN]
Limits == {"partsLimit", "fieldsLimit", "filesLimit"}

\* a request with a multipart body arrives
MultipartReceives ==
  /\ req[1].st = "none"
  /\ \E pathname \in MultipartPaths :
       req' = [req EXCEPT ![1] =
                 execute([NoRequest EXCEPT !.st = "active", !.method = "POST",
                                           !.pathname = pathname, !.type = MultipartType],
                         "global", <<>>, 0, <<>>, <<>>)]
  /\ UNCHANGED <<routerVars, chainVars, serverVars>>

\* the steps of the request
MultipartRequestStep ==
  /\ \E f \in 1..Len(req[1].frames) :
       \/ MiddlewareCallsNext(1, f)
       \/ MiddlewareReturns(1, f)
       \/ HandlerBegins(1, f)
       \/ \E valid \in BOOLEAN : ParseResolved(1, f, valid)
       \/ RouteHandlerReturns(1, f, FALSE)
  /\ UNCHANGED <<routerVars, chainVars, serverVars>>

\* the events of busboy
MultipartStreamStep ==
  /\ \/ \E name \in PartNames, value \in PartValues : BusboyField(1, name, value)
     \/ \E name \in PartNames, value \in PartValues, info \in FieldInfos :
          BusboyFieldTruncated(1, name, value, info)
     \/ \E name \in PartNames : BusboyFile(1, name)
     \/ \E chunk \in FileChunks : BusboyFileData(1, chunk)
     \/ \E truncated \in BOOLEAN : BusboyFileEnd(1, truncated)
     \/ \E limit \in Limits : BusboyLimit(1, limit)
     \/ BusboyFinish(1)
  /\ UNCHANGED <<routerVars, chainVars, serverVars>>

NextMultipart ==
  MultipartReceives \/ MultipartRequestStep \/ MultipartStreamStep \/ PipelineFinally

SpecMultipart == InitPipeline /\ [][NextMultipart]_vars

\* ------------------------------------------------------------------------
\* SpecData: the application registers data providers with the server, and
\* shutdown(), no connection being open, destroys them.
\* ------------------------------------------------------------------------

NextData ==
  \/ \E p \in Providers : DataUse(p)
  \/ \E k \in ShutdownIds : ShutdownEnter(k)
  \/ \E p \in Providers, fulfilled \in BOOLEAN : ProviderSettles(p, fulfilled)
  \/ \E k \in ShutdownIds : ShutdownCompletes(k)

SpecData == InitPipeline /\ [][NextData]_vars

\* ------------------------------------------------------------------------
\* The path matcher on its own (SpecMatcher): one route, or one router with
\* a route directory, is registered, the server starts, and requests are
\* routed
\* ------------------------------------------------------------------------
RouteUsers == Route(<<"/", "u", "s", "e", "r", "s", "/", "{", "i", "d", "}">>, <<"GET">>, FALSE, <<>>, "hU")
RouteFiles == Route(<<"/", "f", "i", "l", "e", "s", "/", "{", "n", "a", "m", "e", "}", ".", "{", "e", "x", "t", "}">>, <<"GET">>, FALSE, <<>>, "hF")
RouteUnclosed == Route(<<"/", "u", "s", "e", "r", "s", "/", "{", "i", "d">>, <<"GET">>, FALSE, <<>>, "hO")
RouteBrace == Route(<<"/", "a", "/", "{">>, <<"GET">>, FALSE, <<>>, "hE")
RouteDot == Route(<<"/", "a", ".", "b">>, <<"GET">>, FALSE, <<>>, "hD")
RouteDotCS == Route(<<"/", "a", ".", "B">>, <<"GET">>, TRUE, <<>>, "hS")
RouteBar == Route(<<"/", "a", "|", "b">>, <<"GET">>, FALSE, <<>>, "hR")
MatcherRoutes ==
  {RouteUsers, RouteFiles, RouteUnclosed, RouteBrace, RouteDot, RouteDotCS, RouteBar}

\* the paths and the texts of the examples
PathUsers42 == <<"/", "u", "s", "e", "r", "s", "/", "4", "2">>
PathUsers == <<"/", "u", "s", "e", "r", "s", "/">>
PathUsersExtra == <<"/", "u", "s", "e", "r", "s", "/", "4", "2", "/", "e", "x", "t", "r", "a">>
PathReport == <<"/", "f", "i", "l", "e", "s", "/", "r", "e", "p", "o", "r", "t", ".", "p", "d", "f">>
ParamId == <<"i", "d">>
ParamName == <<"n", "a", "m", "e">>
ParamExt == <<"e", "x", "t">>
ValueReport == <<"r", "e", "p", "o", "r", "t">>
ValuePdf == <<"p", "d", "f">>

\* the paths requested
MatchPaths ==
  {<<"/", "u", "s", "e", "r", "s", "/", "4", "2">>,
   <<"/", "u", "s", "e", "r", "s", "/">>,
   <<"/", "u", "s", "e", "r", "s">>,
   <<"/", "u", "s", "e", "r", "s", "/", "4", "2", "/", "e", "x", "t", "r", "a">>,
   <<"/", "f", "i", "l", "e", "s", "/", "r", "e", "p", "o", "r", "t", ".", "p", "d", "f">>,
   <<"/", "f", "i", "l", "e", "s", "/", "r", "e", "p", "o", "r", "t", ".">>,
   <<"/", "a", ".", "b">>,
   <<"/", "A", ".", "B">>,
   <<"/", "a", ".", "B">>,
   <<"/", "a", "x", "b">>,
   <<"/", "a", "|", "b">>,
   <<"/", "a">>,
   <<"/", "a", "b", "/", "b">>,
   <<"/", "a", "/">>}

\* route directories with one file: at the root of the directory or in the
\* directory d, named b, with one definition
DiscoveryBasePaths == {<<>>, <<"/">>, <<"/", "a">>}
DiscoveryRelativePaths == {<<>>, <<"/", "d">>}
DiscoveryRoutePaths == {<<>>, <<"/">>, <<"/", "x">>, <<"/", "x", "/">>}

DiscoveryDir(relativePath, excludeFileName, path) ==
  << [relativePath |-> relativePath, fileName |-> <<"b">>,
      definitions |-> << [Route(path, <<"GET">>, FALSE, <<>>, "hB")
                            EXCEPT !.excludeFileName = excludeFileName] >>] >>

DiscoveryRouters ==
  { [id |-> "root", basePath |-> basePath, middleware |-> <<>>,
   defaults |-> NoOptions, kind |-> "dir",
     dirs |-> <<DiscoveryDir(relativePath, excludeFileName, path)>>, routes |-> <<>>] :
      basePath \in DiscoveryBasePaths, relativePath \in DiscoveryRelativePaths,
      excludeFileName \in BOOLEAN, path \in DiscoveryRoutePaths }

\* the application registers a route or a router, then starts the server
MatcherRegisters ==
  /\ \/ ~routerStarted /\ regCount = 0 /\ \E route \in MatcherRoutes : ServerRoute(route)
     \/ ~routerStarted /\ regCount = 0 /\ \E router \in DiscoveryRouters : ServerRouter(router)
     \/ regCount = 1 /\ RouterStart
  /\ UNCHANGED <<chainVars, req, serverVars>>

\* a request arrives once the server listens
MatcherReceives ==
  /\ routerStarted
  /\ req[1].st \in {"none", "handled"}
  /\ \E pathname \in MatchPaths :
       req' = [req EXCEPT ![1] = Received(1, 0, FALSE, "GET", pathname)]
  /\ UNCHANGED <<routerVars, chainVars, serverVars>>

NextMatcher == MatcherRegisters \/ MatcherReceives \/ RouterRequestStep

SpecMatcher == InitRouter /\ [][NextMatcher]_vars

\* ------------------------------------------------------------------------
\* Mounted routers (SpecMounts): the application registers routers whose
\* routes are discovered from directories, one of them below the base path
\* of another, the server is started, and requests are routed
\* ------------------------------------------------------------------------

MountRouters == {RouterRoot, RouterApi, RouterV2}

MountPaths ==
  { <<"/", "z">>, <<"/", "b">>, <<"/", "a", "/", "z">>, <<"/", "a", "/", "b">>,
    <<"/", "a", "/", "v", "/", "z">>, <<"/", "a", "/", "v", "/", "b">> }

\* the application registers its routers, then starts the server
MountRegisters ==
  /\ \/ ~routerStarted /\ \E router \in MountRouters : ServerRouter(router)
     \/ RouterStart
  /\ UNCHANGED <<chainVars, req, serverVars>>

\* a request arrives once the server listens
MountReceives ==
  /\ routerStarted
  /\ req[1].st \in {"none", "handled"}
  /\ \E method \in ReqMethods, pathname \in MountPaths :
       req' = [req EXCEPT ![1] = Received(1, 0, FALSE, method, pathname)]
  /\ UNCHANGED <<routerVars, chainVars, serverVars>>

NextMounts == MountRegisters \/ MountReceives \/ RouterRequestStep

SpecMounts == InitRouter /\ [][NextMounts]_vars

\* ------------------------------------------------------------------------
\* Registration at any time (SpecLate): as SpecRouter, and the application
\* also calls server.route() and server.router() once the server is started
\* ------------------------------------------------------------------------

\* server.route(route) or server.router(router) called after server.start()
LateRegisters ==
  /\ routerStarted
  /\ \/ \E route \in Routes : ServerRoute(route)
     \/ \E router \in Routers : ServerRouter(router)
  /\ UNCHANGED <<chainVars, req, serverVars>>

NextLate == RouterRegisters \/ LateRegisters \/ RouterReceives \/ RouterRequestStep

SpecLate == InitRouter /\ [][NextLate]_vars

\* ------------------------------------------------------------------------
\* Routes registered more than once (SpecTable): as SpecRouter, with routes
\* that are registered for a path and a method another definition has
\* ------------------------------------------------------------------------

\* routes for the path and a method of a route of RouterRoot, RouterList and
\* RouteA, with a case sensitivity of their own
RouteOverB == Route(<<"/", "b">>, <<"GET", "POST">>, TRUE, <<>>, "hB2")
RouteOverA == Route(<<"/", "a">>, <<"GET">>, TRUE, <<"t1">>, "hA2")
TableRoutes == {RouteA, RouteStar, RouteOverA, RouteOverB}

\* the application registers its routes and routers, then starts the server
TableRegisters ==
  /\ \/ ~routerStarted /\ \E route \in TableRoutes : ServerRoute(route)
     \/ ~routerStarted /\ \E router \in Routers : ServerRouter(router)
     \/ RouterStart
  /\ UNCHANGED <<chainVars, req, serverVars>>

NextTable == TableRegisters \/ RouterReceives \/ RouterRequestStep

SpecTable == InitRouter /\ [][NextTable]_vars

\* ------------------------------------------------------------------------
\* Router defaults (SpecDefaults): the application registers a router with
\* defaults whose route sets options of its own, the server is started, and
\* requests are routed
\* ------------------------------------------------------------------------

\* the defaults of the routers
DefaultsOptions ==
  { [NoOptions EXCEPT !["auth.strategy"] = List(<<"api", "session">>),
                      !["cache.maxAge"] = Value("60"),
                      !["security.noSniff"] = Value("true")],
    [NoOptions EXCEPT !["auth.strategy"] = Value("api"),
                      !["auth.isOptional"] = Value("true"),
                      !["payload.allowed"] = List(<<ApplicationJson>>)],
    [NoOptions EXCEPT !["auth.strategy"] = List(<<"api">>),
                      !["auth.scope"] = List(<<"read">>)] }

\* the options the route of the router sets itself
RouteOptions ==
  { NoOptions,
    [NoOptions EXCEPT !["auth.strategy"] = List(<<"session">>)],
    [NoOptions EXCEPT !["auth.strategy"] = Value("session"),
                      !["auth.isOptional"] = Value("false")],
    [NoOptions EXCEPT !["auth.scope"] = List(<<"+admin">>)],
    [NoOptions EXCEPT !["cache.maxAge"] = Value("0")],
    [NoOptions EXCEPT !["security.noSniff"] = Value("false")],
    [NoOptions EXCEPT !["payload.allowed"] = List(<<TextPlain>>)] }

\* a route definition that sets the options
Declares(route, options) == merge(options, route)

DefaultsRouters ==
  { [id |-> "defaults", basePath |-> basePath, middleware |-> <<>>,
     defaults |-> defaults, kind |-> "list", dirs |-> <<>>,
     routes |-> << Declares(Route(<<"/", "b">>, <<"GET">>, FALSE, <<>>, "hB"), options) >>] :
      basePath \in {<<>>, <<"/", "a">>}, defaults \in DefaultsOptions,
      options \in RouteOptions }

\* the application registers a router, then starts the server
DefaultsRegisters ==
  /\ \/ ~routerStarted /\ regCount = 0 /\ \E router \in DefaultsRouters : ServerRouter(router)
     \/ regCount = 1 /\ RouterStart
  /\ UNCHANGED <<chainVars, req, serverVars>>

NextDefaults == DefaultsRegisters \/ RouterReceives \/ RouterRequestStep

SpecDefaults == InitRouter /\ [][NextDefaults]_vars

\* ------------------------------------------------------------------------
\* The response on its own (SpecResponse): a handler calls the methods of
\* the response of one request in any order, a stream it piped emits its
\* events, and the request handler's finally block ends the response
\* ------------------------------------------------------------------------
StatusCodes == {200, 404}
HandlerCacheOptions ==
  {[NoCacheOptions EXCEPT !.set = TRUE],
   [NoCacheOptions EXCEPT !.set = TRUE, !.noStore = TRUE, !.public = TRUE],
   [NoCacheOptions EXCEPT !.set = TRUE, !.private = TRUE, !.noCache = TRUE]}
Bodies == {NoBody, TextBody, ObjectBody}
Details == {"", "d"}

\* the call of a method is counted, and noted as the last one
Called(c, m) == [c EXCEPT !.calls = @ + 1, !.called = m]

\* a request arrives and its route is pinned: the cache options of the
\* route are staged for a GET
ResponseBegins ==
  /\ req[1].st = "none"
  /\ \E method \in {"GET", "POST"}, routeCache \in BOOLEAN :
       LET c == [NoRequest EXCEPT !.st = "active", !.method = method,
                                  !.route.cache = routeCache]
       IN req' = [req EXCEPT ![1] =
                    IF method = "GET" /\ routeCache
                    THEN cacheStore(Called(c, "cache"),
                                    RouteCacheOptions, "execute")
                    ELSE c]
  /\ UNCHANGED <<routerVars, chainVars, serverVars>>

\* the handler calls a method of the response
HandlerCalls ==
  LET c == req[1] IN
  /\ c.st = "active" /\ c.calls < MaxCalls
  /\ \/ \E code \in StatusCodes :
          req' = [req EXCEPT ![1] = status(Called(c, "status"), code, "handler")]
     \/ req' = [req EXCEPT ![1] =
                  header(Called(c, "header"), "x-test", <<"v">>, "handler")]
     \/ req' = [req EXCEPT ![1] =
                  resType(Called(c, "type"), "text/plain", "handler")]
     \/ req' = [req EXCEPT ![1] = cookie(Called(c, "cookie"), "s", "1", "handler")]
     \/ \E options \in HandlerCacheOptions :
          req' = [req EXCEPT ![1] =
                    cacheStore(Called(c, "cache"), options, "handler")]
     \/ \E details \in Details :
          req' = [req EXCEPT ![1] =
                    badRequest(Called(c, "badRequest"), details, "handler")]
     \/ \E body \in Bodies :
          req' = [req EXCEPT ![1] = end(Called(c, "end"), body, "handler")]
     \/ /\ c.streaming = ""
        /\ req' = [req EXCEPT ![1] = stream(Called(c, "stream"), "handler")]
  /\ UNCHANGED <<routerVars, chainVars, serverVars>>

\* the piped stream emits its first data, or ends
StreamEmits ==
  LET c == req[1] IN
  /\ c.st # "none"
  /\ \/ c.streaming = "piped" /\ req' = [req EXCEPT ![1] = StreamFirstData(c)]
     \/ c.streaming \in {"piped", "data"} /\ req' = [req EXCEPT ![1] = StreamFinished(c)]
  /\ UNCHANGED <<routerVars, chainVars, serverVars>>

\* the finally block of the request handler
ResponseFinally ==
  /\ req[1].st = "active"
  /\ req' = [req EXCEPT ![1] = Finished(Called(req[1], "finally"))]
  /\ UNCHANGED <<routerVars, chainVars, serverVars>>

NextResponse ==
  \/ ResponseBegins
  \/ HandlerCalls
  \/ StreamEmits
  \/ ResponseFinally

SpecResponse == InitPipeline /\ [][NextResponse]_vars

\* ------------------------------------------------------------------------
\* Properties of the request pipeline (SpecPipeline)
\* ------------------------------------------------------------------------

\* C12: once the request handler has returned, an exception that an
\* interceptor, a stage or the route handler threw and that rejected the
\* pipeline's promise is recorded on the response and the status is 500;
\* no exception of the pipeline is left uncaught; and the response has
\* been ended, exactly once.
C12_CaughtAndEnded ==
  \A r \in ReqIds :
    LET c == req[r] IN
    c.st = "handled" =>
      /\ Thrower(c, 1) # 0 => (c.status = 500 /\ c.error = Thrower(c, 1))
      /\ c.uncaught = <<>> /\ ~c.escaped
      /\ c.ended /\ c.endCalls = 1

\* the strategy registered as name authenticates the request
Authenticates(c, name) ==
  name \in Strategies /\ StrategyAuthenticate(name, c.credential).isAuthenticated

\* the request has left the authentication stage, no strategy having rejected
PastAuth(c) ==
  /\ c.stage \in {"parse", "done"}
  /\ \A f \in 1..Len(c.frames) : c.frames[f].kind = "handler" => c.frames[f].st # "thrown"

\* C13: the strategies of a route are called in the declared order, and
\* none after the first that authenticates; once the authentication stage
\* is over, the strategies called are those up to the first that
\* authenticates (req.auth is its answer), or all of them; if none
\* authenticated and authentication is not optional the status is 401 and
\* no route middleware or handler is invoked; otherwise the status is not
\* 401 and the closure went on to the scope check.
C13_StrategiesInOrder ==
  \A r \in ReqIds :
    LET c == req[r]
        strategies == c.route.auth.strategy
        n == Len(c.tried)
    IN (c.st # "none" /\ strategies # <<>>) =>
         /\ n <= Len(strategies) /\ c.tried = SubSeq(strategies, 1, n)
         /\ \A i \in 1..(n - 1) : ~Authenticates(c, c.tried[i])
         /\ c.auth.isAuthenticated =>
              (n > 0 /\ c.auth.strategy = c.tried[n] /\ Authenticates(c, c.tried[n]))
         /\ PastAuth(c) =>
              /\ c.auth.isAuthenticated = (\E i \in 1..Len(strategies) : Authenticates(c, strategies[i]))
              /\ ~c.auth.isAuthenticated => n = Len(strategies)
              /\ (~c.auth.isAuthenticated /\ ~c.route.auth.isOptional) =>
                   (c.status = 401 /\ RouteCalls(r) = {} /\ "params" \notin Range(c.trace)
                    /\ \A e \in 1..Len(c.execs) : c.execs[e].lvl # "route")
              /\ (c.auth.isAuthenticated \/ c.route.auth.isOptional) =>
                   (c.status # 401 /\ (c.status = 403 \/ "params" \in Range(c.trace)))

\* C13 witness: the second of three strategies authenticated, the third was
\* not called, and the route handler was invoked
C13_Witness ==
  \E r \in ReqIds :
    /\ req[r].route.auth.strategy = <<"s0", "s1", "s2">>
    /\ req[r].tried = <<"s0", "s1">>
    /\ Authenticates(req[r], "s2")
    /\ req[r].auth.strategy = "s1"
    /\ RouteCalls(r) # {}

\* the scopes granted to the request satisfy the required scope: every
\* scope marked + is granted, none marked ! is, and one of the others is,
\* if there are others
Satisfies(c, scope) ==
  LET granted == Range(c.auth.scopes)
      plain   == { x \in Range(scope) : x[1] \notin {"+", "!"} }
  IN /\ \A x \in Range(scope) : x[1] = "+" => Tail(x) \in granted
     /\ \A x \in Range(scope) : x[1] = "!" => Tail(x) \notin granted
     /\ plain = {} \/ plain \cap granted # {}

\* C14: on a route with strategies and a required scope, a request that
\* left the authentication stage without 401 and whose req.auth does not
\* satisfy the scope has status 403, and neither the route middleware nor
\* the route handler is invoked for it.
C14_ScopeForbidden ==
  \A r \in ReqIds :
    LET c == req[r] IN
    (/\ c.st # "none" /\ c.route.auth.strategy # <<>> /\ c.route.auth.scope # <<>>
     /\ PastAuth(c) /\ c.status # 401
     /\ ~Satisfies(c, c.route.auth.scope))
    => /\ c.status = 403
       /\ RouteCalls(r) = {}
       /\ \A e \in 1..Len(c.execs) : c.execs[e].lvl # "route"
       /\ "params" \notin Range(c.trace)

\* C14 witness: a request authenticated by the third strategy, with a scope
\* the route excludes, was answered 403
C14_Witness ==
  \E r \in ReqIds :
    /\ req[r].st = "handled"
    /\ req[r].auth.isAuthenticated /\ req[r].auth.strategy = "s2"
    /\ req[r].auth.scopes = << <<"b">> >>
    /\ req[r].route.auth.scope = << <<"a">>, <<"!", "b">> >>
    /\ req[r].status = 403

\* the rank of the stages of the handler closure in req.trace
StageRank(stage) ==
  CASE stage = "stage" -> 1 [] stage = "authenticate" -> 2 [] stage = "params" -> 3
    [] stage = "parse" -> 4 [] stage = "parsed" -> 5 [] stage = "validate" -> 6

\* the route middleware or the route handler of the request was invoked
Reached(r) ==
  RouteCalls(r) # {} \/ \E e \in 1..Len(req[r].execs) : req[r].execs[e].lvl = "route"

\* C15: the stages of a request run one after the other in the order
\* route match, method resolution, cache/security staging, authentication
\* (one call per strategy tried), parameters, parse(), and the route
\* middleware and handler after parse() has resolved: no stage runs twice
\* or out of order, and a request whose route middleware or handler was
\* invoked went through all of them, its parameters are the named captures
\* of the match, and its body, if parse() read one, was read to its end.
C15_StagesInOrder ==
  \A r \in ReqIds :
    LET c == req[r] IN
    /\ \A i, j \in 1..Len(c.trace) :
         i < j => \/ StageRank(c.trace[i]) < StageRank(c.trace[j])
                  \/ c.trace[i] = "authenticate" /\ c.trace[j] = "authenticate"
    /\ c.trace # <<>> =>
         /\ c.trace[1] = "stage" /\ c.route # NoRoute
         /\ \E x \in Executes(r), h \in Handlers(r) : x < h
    /\ Cardinality({ i \in 1..Len(c.trace) : c.trace[i] = "authenticate" }) = Len(c.tried)
    /\ "params" \in Range(c.trace) => Len(c.tried) <= Len(c.route.auth.strategy)
    /\ Reached(r) =>
         /\ SelectSeq(c.trace, LAMBDA x : x # "authenticate")
              = <<"stage", "params", "parse", "parsed", "validate">>
         /\ c.route.auth.strategy # <<>> => Len(c.tried) > 0
         /\ \A h \in Handlers(r) : c.params = c.frames[h].groups
         /\ c.parsing.resolved
         /\ c.parsing.listening => c.parsing.streamEnded
         /\ \A h \in Handlers(r), g \in 1..Len(c.frames) :
              (c.frames[g].kind = "route"
               \/ (c.frames[g].kind = "middleware" /\ c.execs[c.frames[g].exec].lvl = "route"))
              => h < g

\* C15 witness: a request with a body went through authentication, body
\* parsing, the route middleware and the route handler
C15_Witness ==
  \E r \in ReqIds :
    /\ req[r].tried # <<>>
    /\ req[r].parsing.listening /\ req[r].payload.set
    /\ \E e \in 1..Len(req[r].execs) : req[r].execs[e].lvl = "route"
    /\ RouteCalls(r) # {}

\* the statuses with which a stage of the pipeline fails
StageErrors == {400, 401, 403, 405, 413, 415}

\* the stages of the request obey the fail-fast policy: the status of a
\* failed stage goes with a closure that returned without dispatching, no
\* stage ran twice, and no strategy was tried twice
FailFast(c, reached) ==
  /\ c.status \in StageErrors =>
       /\ ~reached
       /\ \A f \in 1..Len(c.frames) : c.frames[f].kind = "handler" => c.frames[f].st # "thrown"
  /\ \A i, j \in 1..Len(c.trace) :
       (i < j /\ c.trace[i] = c.trace[j]) => c.trace[i] = "authenticate"
  /\ \A i, j \in 1..Len(c.tried) : i < j => c.tried[i] # c.tried[j]

\* C16: a stage that fails leaves the response in an error state and
\* throws nothing, neither in the handler closure nor in the listeners of
\* parse(); no stage is run again; the route middleware and the route
\* handler are invoked only when parse() has resolved and the response is
\* not in error, so that a request with status 400, 401, 403, 405, 413 or
\* 415 has not reached them.
C16_FailFast ==
  [][\A r \in ReqIds :
       /\ FailFast(req'[r], Reached(r)')
       /\ req'[r].uncaught = <<>>
       /\ (~Reached(r) /\ Reached(r)') =>
            (~isError(req[r]) /\ ~isError(req'[r]) /\ req[r].parsing.resolved)]_vars

\* the number of bytes of a sequence of chunks
RECURSIVE TotalBytes(_)
TotalBytes(chunks) ==
  IF chunks = <<>> THEN 0 ELSE Len(Head(chunks)) + TotalBytes(Tail(chunks))

\* C17: when the bytes of a body read by the data listener, however
\* divided into chunks, come to exceed the maxBytes of the route, the
\* response becomes 413 and parse() aborts and resolves with the very
\* chunk that took the total over the budget.
C17_TotalBudget ==
  [][\A r \in ReqIds :
       (/\ req[r].parsing.listening /\ ~req[r].parsing.multipart
        /\ TotalBytes(req[r].parsing.chunks) <= req[r].parsing.maxBytes
        /\ TotalBytes(req'[r].parsing.chunks) > req[r].parsing.maxBytes)
         => (/\ req'[r].status = 413
             /\ req'[r].parsing.aborted /\ req'[r].parsing.resolved)]_vars

\* the step is an event of the request stream of request r
StreamEvent(r) ==
  \/ req'[r].parsing.arrived # req[r].parsing.arrived
  \/ req'[r].parsing.streamEnded # req[r].parsing.streamEnded

\* C18: once parse() has aborted a body read by the data listener, a
\* later chunk and the end of the stream change nothing: the accumulated
\* chunks, the payload, the status of the response stay as they are and
\* no listener throws, whether the response has been sent or not.
C18_IgnoredAfterAbort ==
  [][\A r \in ReqIds :
       (req[r].parsing.aborted /\ ~req[r].parsing.multipart /\ StreamEvent(r))
         => /\ req'[r].parsing.chunks = req[r].parsing.chunks
            /\ req'[r].payload = req[r].payload
            /\ req'[r].status = req[r].status
            /\ req'[r].uncaught = req[r].uncaught]_vars

\* the step is the one in which request r calls parse()
CallsParse(r) ==
  "parse" \notin Range(req[r].trace) /\ "parse" \in Range(req'[r].trace)

\* the content type the request is taken to have, in lower case
TypeOf(c) ==
  IF c.type # <<>> THEN ToLowerCase(c.type)
  ELSE IF c.route.payload.defaultContentType # <<>>
       THEN ToLowerCase(c.route.payload.defaultContentType)
       ELSE <<"a", "/", "j">>

\* the content types the route of the request allows
AllowedOf(c) ==
  IF c.route.payload.allowed # <<>> THEN c.route.payload.allowed
  ELSE << <<"a", "/", "j">>, <<"a", "/", "u">>, <<"m", "/", "f">> >>

\* the content type of the request contains one of the allowed types
Supported(c) ==
  \E i \in 1..Len(AllowedOf(c)) : Includes(TypeOf(c), AllowedOf(c)[i])

\* C19: when parse() is called for a request with a body-carrying method,
\* the content type is the content-type header (in lower case), else the
\* default content type of the route, else application/json; if it
\* contains none of the allowed types of the route (by default
\* application/json, application/x-www-form-urlencoded and
\* multipart/form-data), the status becomes 415, parse() resolves without
\* listening to the body, and the allowed types are listed in accept-post
\* for POST, accept-patch for PATCH and in no header for another method;
\* otherwise the status is not 415.  A request with status 415 never has
\* its body read nor a payload.
C19_UnsupportedMediaType ==
  [][\A r \in ReqIds :
       LET c == req'[r] IN
       /\ (CallsParse(r) /\ c.method \in PayloadMethods) =>
            IF Supported(c)
            THEN c.status # 415 /\ c.accept = NoRequest.accept
            ELSE /\ c.status = 415
                 /\ c.parsing.resolved /\ ~c.parsing.listening
                 /\ c.accept = CASE c.method = "POST" ->
                                      [name |-> "accept-post", value |-> Join(AllowedOf(c))]
                                 [] c.method = "PATCH" ->
                                      [name |-> "accept-patch", value |-> Join(AllowedOf(c))]
                                 [] OTHER -> NoRequest.accept
       /\ c.status = 415 =>
            (~c.parsing.listening /\ c.parsing.chunks = <<>> /\ ~c.payload.set)]_vars

\* C19 witness: a PATCH request whose content type the route does not
\* allow was answered 415 with the accept-patch header, its body unread
C19_Witness ==
  \E r \in ReqIds :
    /\ req[r].method = "PATCH" /\ req[r].status = 415
    /\ req[r].accept.name = "accept-patch"
    /\ "parse" \in Range(req[r].trace) /\ ~req[r].parsing.listening

\* the values of the parts named name, in the order of arrival
RECURSIVE ValuesOf(_, _)
ValuesOf(parts, name) ==
  IF parts = <<>> THEN <<>>
  ELSE IF Head(parts).name = name
       THEN <<Head(parts).value>> \o ValuesOf(Tail(parts), name)
       ELSE ValuesOf(Tail(parts), name)

\* C20: the payload of a multipart/form-data body maps a name that
\* occurred once among the fields to its value, a name that occurred
\* n >= 2 times to the array of its n values in the order of arrival, and
\* has no other name.
C20_RepeatedFields ==
  \A r \in ReqIds :
    LET c == req[r] IN
    (c.payload.set /\ c.payload.value.kind = "multipart") =>
      \A name \in FieldNames :
        LET values == ValuesOf(c.parsing.parts, name)
            fields == c.payload.value.data
            i      == FieldIndex(fields, name)
        IN /\ Len(values) = 0 => i = 0
           /\ Len(values) = 1 => (i # 0 /\ ~fields[i].isArray /\ fields[i].value = values[1])
           /\ Len(values) >= 2 => (i # 0 /\ fields[i].isArray /\ fields[i].items = values)

\* ------------------------------------------------------------------------
\* Properties of the multipart decoding (SpecMultipart)
\* ------------------------------------------------------------------------

\* the step is an event of busboy for request r
BusboyEvent(r) ==
  /\ req[r].parsing.multipart
  /\ \/ req'[r].parsing.arrived # req[r].parsing.arrived
     \/ req'[r].parsing.file # req[r].parsing.file
     \/ req'[r].parsing.limits # req[r].parsing.limits
     \/ req'[r].parsing.streamEnded # req[r].parsing.streamEnded

\* the step adds a part to the payload object that busboy fills
AddsPart(r) == Len(req'[r].parsing.parts) = Len(req[r].parsing.parts) + 1

\* the part the step adds
Added(r) == req'[r].parsing.parts[Len(req'[r].parsing.parts)]

\* the step answers a breach with the status code: parse() aborts and resolves
Answers(r, code) ==
  /\ req'[r].status = code
  /\ req'[r].parsing.aborted /\ req'[r].parsing.resolved

\* C21: a field with a truncated value, a truncated file and a parts,
\* fields or files limit are answered with 413, a field with a truncated
\* name with 400; and once the decoding has aborted, no event of busboy
\* adds a field or a file to the payload object, and the payload is never
\* published on the request.
C21_MultipartAbort ==
  [][\A r \in ReqIds :
       /\ (BusboyEvent(r) /\ ~req[r].headersSent) =>
            /\ (AddsPart(r) /\ Added(r).info.nameTruncated) => Answers(r, 400)
            /\ (AddsPart(r) /\ Added(r).info.valueTruncated /\ ~Added(r).info.nameTruncated)
                 => Answers(r, 413)
            /\ req'[r].parsing.limits # req[r].parsing.limits => Answers(r, 413)
       /\ (BusboyEvent(r) /\ req[r].parsing.aborted) =>
            /\ req'[r].parsing.fields = req[r].parsing.fields
            /\ req'[r].payload = req[r].payload
       /\ (req'[r].parsing.multipart /\ req'[r].parsing.aborted) => ~req'[r].payload.set]_vars

\* ------------------------------------------------------------------------
\* Properties of the responses (SpecServer, SpecPipeline)
\* ------------------------------------------------------------------------

\* the connection of request r has closed while the request handler has
\* not returned
ClosedMidRequest(r) ==
  /\ req[r].st = "active"
  /\ req[r].socket # 0 /\ sock[req[r].socket].st = "closed"

\* C22: once the connection of a request that is being processed has
\* closed, no step of the pipeline and no end-guard of the request handler
\* writes to the response or ends it; and the 'close' event takes the
\* request out of the in-flight set.
C22_NoWriteAfterClose ==
  [][\A r \in ReqIds :
       ClosedMidRequest(r) =>
         /\ req'[r].ended = req[r].ended
         /\ req'[r].endCalls = req[r].endCalls
         /\ req'[r].headersSent = req[r].headersSent
         /\ req'[r].status = req[r].status
         /\ r \in requests' => r \in requests]_vars

\* ------------------------------------------------------------------------
\* Properties of the response on its own (SpecResponse)
\* ------------------------------------------------------------------------

\* the step is a call of method m on the response of request r
CallsMethod(r, m) == req'[r].calls = req[r].calls + 1 /\ req'[r].called = m

\* C24: once the headers have been sent, a call of status(), header(),
\* type() or cookie() throws and leaves the status and the headers as they
\* were; once the response has finished, a call of end() throws and does
\* not end the response a second time
C24_NoMutationAfterSent ==
  [][LET c == req[1]
         c1 == req'[1]
     IN /\ (c.headersSent /\ \E m \in {"status", "header", "type", "cookie"} : CallsMethod(1, m)) =>
             /\ Threw(c, c1)
             /\ c1.status = c.status /\ c1.headers = c.headers
        /\ (c.ended /\ CallsMethod(1, "end")) =>
             /\ Threw(c, c1)
             /\ c1.ended /\ c1.endCalls = c.endCalls
             /\ c1.endedBy = c.endedBy /\ c1.body = c.body]_vars

\* the response was ended, a call on its sent headers threw, and a second
\* call of end() threw
C24_Witness ==
  LET c == req[1]
  IN c.ended /\ c.endCalls = 1 /\ c.called = "end" /\ c.calls = 3 /\ Len(c.uncaught) = 2

\* the step begins flushing the response of request r: end() is called, by
\* the handler or by the finally block, or a piped stream emits its first
\* data
Flushes(r) ==
  \/ CallsMethod(r, "end")
  \/ CallsMethod(r, "finally")
  \/ req[r].streaming = "piped" /\ req'[r].streaming = "data"

\* C25: cache(options) only stores the options and leaves the headers as
\* they are, the options of a call by the handler taking the place of the
\* ones stored before; the cache-control header changes only in a step that
\* begins flushing the response, it is then made of the options stored last,
\* and the options are cleared by the step, so that they are not applied again
C25_CacheStaged ==
  [][LET c == req[1]
         c1 == req'[1]
     IN /\ CallsMethod(1, "cache") =>
             /\ c1.headers = c.headers
             /\ c1.cacheOptions.set
             /\ c.st = "active" => c1.cacheOptions \in HandlerCacheOptions
        /\ c1.headers["cache-control"] # c.headers["cache-control"] =>
             /\ Flushes(1)
             /\ c.cacheOptions.set /\ ~c1.cacheOptions.set
             /\ c1.headers["cache-control"] = Join(Directives(c.cacheOptions, c.status))]_vars

\* a GET of a route with cache options whose handler stored no-store
\* options in their place, ended with those applied and cleared
C25_Witness ==
  LET c == req[1]
  IN /\ c.method = "GET" /\ c.route.cache
     /\ c.ended /\ c.status = 200
     /\ c.headers["cache-control"] = <<"no-store">>
     /\ ~c.cacheOptions.set

\* the finally block ends, with no body, the response of request r, which
\* is in an error state
EndsError(r) == CallsMethod(r, "finally") /\ ~req[r].ended /\ isError(req[r])

\* C26: when the finally block ends a response in an error state, with no
\* body: if the headers have not been sent the body is the envelope, as
\* JSON, and the status in it is the status code of the response; if the
\* headers have been sent the response is ended and nothing is thrown
C26_ErrorEnvelope ==
  [][LET c == req[1]
         c1 == req'[1]
     IN EndsError(1) =>
          /\ ~c.headersSent =>
               /\ c1.ended /\ c1.body.kind = "json" /\ c1.body.error.has
               /\ StatusNumber(c1.body.error.status) = c1.status
               /\ c1.body.error.message = statusMessage(c1)
               /\ c1.body.error.details = c1.details
          /\ c.headersSent =>
               /\ c1.ended /\ ~Threw(c, c1) /\ ~c1.escaped]_vars

\* ------------------------------------------------------------------------
\* Properties of the path matcher (SpecMatcher)
\* ------------------------------------------------------------------------

\* every '{' of the path from path[i] on has its matching '}'
RECURSIVE Terminated(_, _)
Terminated(path, i) ==
  IF i > Len(path) THEN TRUE
  ELSE IF path[i] = "{"
       THEN LET sc == ScanParam(path, i + 1, 1, <<>>)
            IN sc.braceCount = 0 /\ Terminated(path, sc.pos)
       ELSE Terminated(path, i + 1)

\* C27: the registration of a route whose path has a '{' without its
\* matching '}' fails: the route table never holds an entry, and so a
\* matcher, for such a path
C27_UnterminatedRejected ==
  \A i \in 1..Len(map) : Terminated(map[i].key, 1)

\* the path has a placeholder
HasPlaceholder(path) == \E i \in 1..Len(path) : path[i] = "{"

\* the path p is the literal path: character by character, letters compared
\* without their case unless the route is case sensitive
SameLiteral(p, literal, isCaseSensitive) ==
  /\ Len(p) = Len(literal)
  /\ \A i \in 1..Len(p) : SameChar(p[i], literal[i], ~isCaseSensitive)

\* execute() routed the request c to the entry of key: its handler closure
\* was called for the entry
RoutedTo(c, key) ==
  \E f \in 1..Len(c.frames) : c.frames[f].kind = "handler" /\ c.frames[f].key = key

\* C28: the matcher of a path without placeholders accepts a requested
\* path exactly when it is the literal path, compared with or without case
\* as the route says, and a request is routed to such an entry only when
\* its path is the literal path
C28_LiteralExact ==
  \A i \in 1..Len(map) :
    ~HasPlaceholder(map[i].key) =>
      /\ \A p \in MatchPaths :
           RegExpExec(map[i].regex, p).matched
             <=> SameLiteral(p, map[i].key, ~map[i].regex.ignoreCase)
      /\ \A r \in ReqIds :
           (req[r].st # "none" /\ RoutedTo(req[r], map[i].key)) =>
             SameLiteral(req[r].pathname, map[i].key, ~map[i].regex.ignoreCase)

\* the path has only placeholders of the form {name}: each is closed and
\* none has a pattern of its own
DefaultPlaceholders(path) ==
  /\ HasPlaceholder(path) /\ Terminated(path, 1)
  /\ \A i \in 1..Len(path) : path[i] # ":"

\* the value is one or more characters, none of them a slash
Segment(value) == value # <<>> /\ \A i \in 1..Len(value) : value[i] # "/"

\* the match of the entry of key with the path p
MatchOf(key, p) == RegExpExec(map[MapIndex(map, key)].regex, p)

\* C29: a placeholder {name} matches one or more characters other than a
\* slash and binds them to params[name]: whatever path such an entry
\* accepts, each value bound is a non-empty text without a slash, and the
\* parameters of a request routed to the entry are those; '/users/{id}'
\* accepts '/users/42' with id 42 and neither '/users/' nor
\* '/users/42/extra', and '/files/{name}.{ext}' binds report and pdf for
\* '/files/report.pdf'
C29_PlaceholderSegment ==
  /\ \A i \in 1..Len(map) :
       DefaultPlaceholders(map[i].key) =>
         /\ \A p \in MatchPaths :
              LET m == RegExpExec(map[i].regex, p)
              IN m.matched =>
                   /\ m.groups # <<>>
                   /\ \A g \in 1..Len(m.groups) : Segment(m.groups[g][2])
         /\ \A r \in ReqIds :
              (req[r].st # "none" /\ RoutedTo(req[r], map[i].key)) =>
                /\ RegExpExec(map[i].regex, req[r].pathname).matched
                /\ req[r].params \in {<<>>, RegExpExec(map[i].regex, req[r].pathname).groups}
  /\ MapIndex(map, RouteUsers.path) # 0 =>
       /\ MatchOf(RouteUsers.path, PathUsers42)
            = [matched |-> TRUE, groups |-> << <<ParamId, <<"4", "2">> >> >>]
       /\ ~MatchOf(RouteUsers.path, PathUsers).matched
       /\ ~MatchOf(RouteUsers.path, PathUsersExtra).matched
  /\ MapIndex(map, RouteFiles.path) # 0 =>
       MatchOf(RouteFiles.path, PathReport)
         = [matched |-> TRUE,
            groups |-> << <<ParamName, ValueReport>>, <<ParamExt, ValuePdf>> >>]

\* a request for '/files/report.pdf' was routed to '/files/{name}.{ext}' and
\* handled with its parameters bound
C29_Witness ==
  /\ req[1].st = "handled" /\ req[1].pathname = PathReport
  /\ req[1].route.handler = "hF"
  /\ req[1].params = << <<ParamName, ValueReport>>, <<ParamExt, ValuePdf>> >>

\* the path the route of the one file of the router's directory is to have:
\* the base path, the relative path of the file's directory, the name of
\* the file unless excluded, the path the route declares, without trailing
\* slashes unless it is the root
ExpectedPath(router) ==
  LET file == router.dirs[1][1]
      route == file.definitions[1]
      full == ResolveBasePath(router.basePath) \o file.relativePath
              \o (IF route.excludeFileName THEN <<>> ELSE <<"/">> \o file.fileName)
              \o route.path
  IN IF full = <<"/">> THEN full ELSE StripTrailingSlashes(full)

\* C30: the route table a router with a route directory gives holds, beside
\* the catch-all route of the router, the route of the file under the path
\* made of the base path, the relative path, the file name unless excluded
\* and the declared path, and that path does not end with a slash unless
\* it is the root
C30_DiscoveredPaths ==
  \A router \in DiscoveryRouters :
    (map # <<>> /\ MapKeys(map) = MapKeys(use(<<>>, router).map)) =>
      \A i \in 1..Len(map) :
        \/ map[i].key = ResolveBasePath(router.basePath) \o CATCH_ALL_ROUTE_PATH
        \/ /\ map[i].key = ExpectedPath(router)
           /\ map[i].key \in {<<>>, <<"/">>} \/ map[i].key[Len(map[i].key)] # "/"

\* ------------------------------------------------------------------------
\* Properties of mounted routers (SpecMounts)
\* ------------------------------------------------------------------------

\* the router was registered: an entry of the route table belongs to it
Mounted(router) == \E i \in 1..Len(map) : map[i].router = router.id

\* the path lies under the base path: below it, or anywhere for a router
\* mounted at the root
Under(pathname, basePath) ==
  /\ Len(pathname) > Len(basePath)
  /\ SubSeq(pathname, 1, Len(basePath)) = basePath
  /\ pathname[Len(basePath) + 1] = "/"

\* the registered router the path belongs to: the one with the longest
\* base path the path lies under
Owns(router, pathname) ==
  /\ Mounted(router)
  /\ Under(pathname, ResolveBasePath(router.basePath))
  /\ \A other \in MountRouters :
       Mounted(other) /\ Under(pathname, ResolveBasePath(other.basePath))
         => Len(other.basePath) <= Len(router.basePath)

\* one of the routes discovered for the router accepts the path
MatchesRouteOf(router, pathname) ==
  \E i \in 1..Len(map) :
    map[i].router = router.id /\ ~IsCatchAll(map[i].key) /\ Accepts(i, pathname)

\* a middleware of the router was invoked for the request
RanMiddlewareOf(c, router) ==
  \A name \in Range(router.middleware) :
    \E f \in 1..Len(c.frames) : c.frames[f].kind = "middleware" /\ c.frames[f].name = name

\* the request was answered by the catch-all route of the router: execute()
\* matched its entry and pinned the router, the router's middleware ran, and
\* the route's handler answered 404 unless a middleware of the router or a
\* stage before the handler (the parsing of the body) answered
AnsweredByCatchAllOf(c, router) ==
  /\ c.status = 404 \/ \A f \in 1..Len(c.frames) : c.frames[f].kind # "route"
  /\ c.router = router.id
  /\ \E f \in 1..Len(c.frames) :
       /\ c.frames[f].kind = "execute"
       /\ c.frames[f].key = ResolveBasePath(router.basePath) \o CATCH_ALL_ROUTE_PATH
  /\ RanMiddlewareOf(c, router)

\* C31: a handled request whose path lies under the base path of a router
\* with discovered routes and matches none of that router's routes was
\* answered 404 by the catch-all route of that router, with the router
\* pinned to the request and the router's middleware run, whatever its
\* method; it was not routed to a route of another router.
C31_OwnCatchAll ==
  \A r \in ReqIds : \A router \in MountRouters :
    /\ req[r].st = "handled"
    /\ Owns(router, req[r].pathname)
    /\ ~MatchesRouteOf(router, req[r].pathname)
    => AnsweredByCatchAllOf(req[r], router)

\* ------------------------------------------------------------------------
\* Properties of the started route table (SpecLate)
\* ------------------------------------------------------------------------

\* C32: once RouterHandler.start() has run, no step changes the route
\* table: the entries, their order, their matchers and their method
\* bindings stay as they are, whether the step handles a request or is a
\* call of server.route() or server.router().
C32_TableFrozen == [][routerStarted => map' = map]_vars

\* ------------------------------------------------------------------------
\* Properties of the router defaults (SpecDefaults)
\* ------------------------------------------------------------------------

\* the route the table binds to the first method of the route of the
\* router, once the router is registered on the table m
RegisteredRoute(m, router, route) ==
  LET mapping == m[MapIndex(m, ResolveBasePath(router.basePath) \o route.path)]
  IN mapping.methods[ResolveMethod(mapping.methods, route.method[1])].route

\* the registered route carries the route's own value of every option the
\* route sets, and the default of every option only the defaults set
RouteWins(defaults, route, registered) ==
  \A k \in OptionKeys :
    registered.options[k] =
      IF route.options[k] # Undefined THEN route.options[k] ELSE defaults[k]

\* C33: when a router with defaults is registered, each of its routes is
\* registered with, for every option of cache, auth, security and payload,
\* exactly the route's own value when the route sets the option (a list
\* included), and the default when only the defaults set it.
C33_RouteWins ==
  [][\A router \in DefaultsRouters :
       ServerRouter(router) =>
         \A i \in 1..Len(router.routes) :
           RouteWins(router.defaults, router.routes[i],
                     RegisteredRoute(map', router, router.routes[i]))]_vars

\* ------------------------------------------------------------------------
\* Properties of the in-flight requests (SpecInFlight)
\* ------------------------------------------------------------------------

\* the requests created whose response has neither finished nor closed
Unanswered == { r \in ReqIds : req[r].st # "none" /\ ~req[r].finish /\ ~req[r].close }

\* C34: the in-flight set holds exactly the requests that were created and
\* whose response has emitted neither 'finish' nor 'close'; the second of
\* the two events of a response leaves the set as it is.
C34_InFlightExact ==
  /\ [](requests = Unanswered)
  /\ [][\A r \in ReqIds : ResOtherEvent(r) => requests' = requests]_vars

\* a response has finished and then closed while another request is in flight
C34_Witness ==
  \E r \in ReqIds : req[r].finish /\ req[r].close /\ requests # {} /\ r \notin requests

\* ------------------------------------------------------------------------
\* Properties of the entries of the route table (SpecTable)
\* ------------------------------------------------------------------------

\* the routes a registration passes to addRoute, in the order of the calls
AddedBy(router) ==
  [i \in 1..Len(ResolveRoutes(router)) |->
     [ResolveRoutes(router)[i]
        EXCEPT !.path = ResolveBasePath(router.basePath) \o @]]

\* the route the table m binds the method to in the entry of the path,
\* NoRoute when the entry has no binding for the method
Bound(m, path, method) ==
  IF MapIndex(m, path) = 0 THEN NoRoute
  ELSE LET methods == m[MapIndex(m, path)].methods
       IN IF IndexOf(MethodKeys(methods), method) = 0 THEN NoRoute
          ELSE methods[IndexOf(MethodKeys(methods), method)].route

\* the last of the routes of the list that names the path and the method,
\* NoRoute when none does
LastFor(routes, path, method) ==
  LET is == { i \in 1..Len(routes) :
                routes[i].path = path /\ method \in Range(routes[i].method) }
  IN IF is = {} THEN NoRoute ELSE routes[CHOOSE i \in is : \A j \in is : j <= i]

\* after the calls of addRoute for the routes of the list, each path and
\* method is bound to the last route of the list that names them, and
\* keeps its binding when no route of the list names them
BindsLast(routes) ==
  \A path \in Range(MapKeys(map')), method \in Range(SortOrder) :
    Bound(map', path, method) =
      IF LastFor(routes, path, method) # NoRoute THEN LastFor(routes, path, method)
      ELSE Bound(map, path, method)

\* C35: after any calls of addRoute and use the table has one entry for
\* each path that was registered, no two entries for the same path, and an
\* entry binds a method name ('*' included) to one route: the route most
\* recently registered for the path and the method.
C35_OneEntryPerPath ==
  /\ [](\A i, j \in 1..Len(map) : map[i].key = map[j].key => i = j)
  /\ [](\A i \in 1..Len(map) : \A a, b \in 1..Len(map[i].methods) :
          map[i].methods[a].m = map[i].methods[b].m => a = b)
  /\ [][/\ \A route \in TableRoutes : ServerRoute(route) => BindsLast(<<route>>)
        /\ \A router \in Routers : ServerRouter(router) => BindsLast(AddedBy(router))]_vars

\* a method of an entry is bound to the route registered for it last, the
\* entry having been made for another route
C35_Witness ==
  /\ MapIndex(map, RouteOverB.path) # 0
  /\ map[MapIndex(map, RouteOverB.path)].router = "root"
  /\ Bound(map, RouteOverB.path, "GET") = RouteOverB

\* C36: a registration leaves every entry the table has at its position,
\* with its path, its compiled matcher (and so its case sensitivity) and
\* its router; only the method bindings of the entries of the registered
\* paths change.
C36_EntryFixedByFirst ==
  [][/\ (routerStarted' = routerStarted) =>
          \A i \in 1..Len(map) :
            /\ i <= Len(map')
            /\ map'[i].key = map[i].key
            /\ map'[i].regex = map[i].regex
            /\ map'[i].router = map[i].router
     /\ \A route \in TableRoutes : ServerRoute(route) =>
          \A i \in 1..Len(map) : map[i].key # route.path => map'[i] = map[i]
     /\ \A router \in Routers : ServerRouter(router) =>
          \A i \in 1..Len(map) :
            (\A k \in 1..Len(AddedBy(router)) : map[i].key # AddedBy(router)[k].path)
              => map'[i] = map[i]]_vars

\* an entry made for a route that ignores the case, by a router, binds a
\* method to a case-sensitive route registered later without a router
C36_Witness ==
  \E i \in 1..Len(map) :
    /\ map[i].key = RouteOverB.path
    /\ map[i].router = "root"
    /\ map[i].regex = compileRouteRegex(Route(<<"/", "b">>, <<"GET">>, FALSE, <<>>, "hB"))
    /\ Bound(map, RouteOverB.path, "POST") = RouteOverB

\* ------------------------------------------------------------------------
\* Properties of one execution of a chain (SpecChain)
\* ------------------------------------------------------------------------

\* no interceptor of chain execution e of request r was invoked twice
InterceptorsOnce(r, e) ==
  \A f, g \in MwFrames(r, e) : req[r].frames[f].pos = req[r].frames[g].pos => f = g

\* C37: in one execution of a chain no interceptor is invoked more than
\* once and the final handler is invoked at most once, whatever the number
\* of calls of next() the interceptors make.
C37_AtMostOnce ==
  \A r \in ReqIds : \A e \in 1..Len(req[r].execs) :
    InterceptorsOnce(r, e) /\ req[r].execs[e].hcalls <= 1

\* ------------------------------------------------------------------------
\* Properties of the scopes (SpecScope)
\* ------------------------------------------------------------------------

\* the stages before the route handler answered with an error of the body
\* or of the validation
BodyRefused(c) == c.status \in {400, 413, 415}

Authorizes(granted, scope) ==
  /\ granted # {}
  /\ \A x \in Range(scope) : x[1] = "+" => Tail(x) \in granted
  /\ \A x \in Range(scope) : x[1] = "!" => Tail(x) \notin granted
  /\ \/ \A x \in Range(scope) : x[1] \in {"+", "!"}
     \/ \E x \in Range(scope) : x[1] \notin {"+", "!"} /\ x \in granted

\* the step of request r in which the handler closure, the authentication
\* over and not answered 401, calls isAuthorized with the scope of the route
ChecksScope(r) ==
  /\ req[r].stage = "auth"
  /\ req[r].route.auth.scope # <<>>
  /\ req'[r].status = 403 \/ "params" \in Range(req'[r].trace)

\* C39: isAuthorized(scope) returns true exactly when the granted scopes
\* of the request are not empty, every scope written +x is granted, no
\* scope written !x is granted, and no unprefixed scope is listed or one of
\* them is granted; the request is answered 403 exactly when it returns
\* false, and the call leaves req.auth as authentication left it.
C39_IsAuthorizedExact ==
  /\ [](\A r \in ReqIds :
          (req[r].st # "none" /\ req[r].route.auth.scope # <<>>) =>
            isAuthorized(req[r], req[r].route.auth.scope)
              = Authorizes(Range(req[r].auth.scopes), req[r].route.auth.scope))
  /\ [][\A r \in ReqIds :
          ChecksScope(r) =>
            /\ (req'[r].status # 403)
                 = Authorizes(Range(req'[r].auth.scopes), req[r].route.auth.scope)
            /\ req'[r].auth =
                 authenticate(req[r], req[r].route.auth.strategy[Len(req[r].tried) + 1]).auth]_vars

\* a request authenticated without any scope was refused by a route whose
\* scope only excludes a scope, and a request granted a and b passed a
\* scope of required and alternative scopes
C39_Witness ==
  \E r \in ReqIds :
    /\ req[r].st = "handled"
    /\ \/ /\ req[r].auth.isAuthenticated /\ req[r].auth.scopes = <<>>
           /\ req[r].route.auth.scope = << <<"!", "b">> >>
           /\ req[r].status = 403
        \/ /\ req[r].auth.scopes = << <<"a">>, <<"b">> >>
           /\ req[r].route.auth.scope = << <<"+", "a">>, <<"c">>, <<"b">> >>
           /\ RouteCalls(r) # {}

\* ------------------------------------------------------------------------
\* Properties of the end of parse() (SpecAbort)
\* ------------------------------------------------------------------------

\* parse() has returned a promise that waits for the body of the request
Parsing == req[1].parsing.listening

\* C40: for every request with a method that carries a body and an allowed
\* content type, the promise of parse() is eventually resolved, also when
\* the request stream errors or closes before the end of the body, and
\* the request handler reaches its finally block
C40_ParseResolves ==
  /\ Parsing ~> req[1].parsing.resolved
  /\ req[1].st = "active" ~> req[1].st = "handled"

\* ------------------------------------------------------------------------
\* Properties of the data providers (SpecData)
\* ------------------------------------------------------------------------

\* the providers that were registered and have a destroy method
Destroyables == { p \in DestroyableProviders : data.entries[p] # "none" }

====
